---- MODULE Spec2Model ----
(***************************************************************************)
(* Plan92 file service: session registry, per-session descriptor tables,  *)
(* reference-counted in-memory storage, hierarchical permission checking  *)
(* and the Open / Read / Write / Close / Stat handlers.                    *)
(*                                                                         *)
(* Every RPC handler is one atomic action (a quiescent point lies between *)
(* any two steps).  Go's randomized map iteration (SessionManager.List)    *)
(* is a nondeterministic choice.  A runtime panic inside a handler stops  *)
(* the server process (up = FALSE).  Paths are sequences of components,   *)
(* already in path.Clean form.  Modification times are not modelled.      *)
(*                                                                         *)
(* The streaming specification also runs Read step by step: the handler   *)
(* reads the shared FileData record without holding the storage lock, so  *)
(* each of those reads is a step another handler's commit can fall        *)
(* between.  MemoryStorage.Set runs under the storage write lock and is   *)
(* one step.                                                               *)
(***************************************************************************)
EXTENDS Integers, Sequences, FiniteSets, TLC

\* ------------------------------------------------------------------ bounds
MaxSessions == 2      \* sessions created during a run
MaxFD == 2            \* descriptors allocated by one descriptor table
MaxSteps == 6         \* handler calls during a run of the lifecycle specification
MaxPermSteps == 1     \* handler calls during a run of the permission specification
MaxStreamSteps == 4   \* handler steps during a run of the streaming specification
MaxChunks == 2        \* whole chunks in the longest file of the chunking specification
MaxChunkReads == 1    \* Read calls during a run of the chunking specification
MaxIOSteps == 2       \* handler calls during a run of the read/write specification
MaxCloseCalls == 2    \* Close calls during a run of the concurrent-close specification
MaxOpenCalls == 2     \* Open calls during a run of the concurrent-open specification
MaxWriteCalls == 2    \* Write calls during a run of the concurrent-write specification
MaxLockCalls == 2     \* concurrent calls during a run of the lock-level specification

\* -------------------------------------------------------- program constants
chunkSize == 32768

\* ------------------------------------------------------------ input domains
SessionInputs ==
    { [user |-> "alice", groups |-> <<"staff">>],
      [user |-> "bob",   groups |-> <<"dev", "staff">>],
      [user |-> "bob",   groups |-> <<>>] }
Paths == { <<"a">>, <<"a", "b">>, <<"a", "b", "c.txt">>, <<"p">> }
OpenModes == {"UNSPECIFIED", "READ", "WRITE", "RDWR", "TRUNC", "EXEC", "RCLOSE"}
\* directory 0755, directory 0644 (no execute bit), regular file 0070
InodeInputs ==
    { [type |-> "DIRECTORY", mode |-> 493],
      [type |-> "DIRECTORY", mode |-> 420],
      [type |-> "REGULAR",   mode |-> 56] }
SessionIds == 1..MaxSessions
FdInputs == 3..(3 + MaxFD)

VARIABLES
    files,      \* MemoryStorage.files: path -> FileData
    sessions,   \* SessionManager.sessions: session id -> Session (with its FDTable)
    nextSid,    \* number of session ids generated so far (uuid.New is fresh)
    up,         \* the server process is running (no handler has panicked)
    last,       \* the last call and its reply
    allocd,     \* history: ids returned by each session's table's Allocate, in order
    closedIds,  \* history: descriptor ids for which a Close call has succeeded
    budget,     \* number of handler steps the run may still make
    reads,      \* Read handlers in flight: caller -> the handler's locals
    closes,     \* step-by-step Close calls: call -> the handler's locals and reply
    opens,      \* step-by-step Open calls: call -> the handler's locals and reply
    removed,    \* Session objects deleted from the registry that a handler may still hold
    writes,     \* step-by-step Write calls: call -> the handler's locals and reply
    threads,    \* lock-level view of the calls: call -> handler, position, locks wanted
    locks       \* the three kinds of sync.RWMutex: lock -> writer and readers

vars == <<files, sessions, nextSid, up, last, allocd, closedIds, budget, reads, closes,
          opens, removed, writes, threads, locks>>

\* ------------------------------------------------------------------ helpers
EmptyFn == [x \in {} |-> x]
Drop(f, k) == [x \in (DOMAIN f) \ {k} |-> f[x]]
Put(f, k, v) == [x \in (DOMAIN f) \cup {k} |-> IF x = k THEN v ELSE f[x]]
\* no lock is held (the locks are tracked by the lock-level specification only)
NoLocks == EmptyFn
BitSet(mode, mask) == (mode \div mask) % 2 = 1

\* ---------------------------------------------------------- MemoryStorage
FileInfo(type, mode, owner, group) ==
    [type |-> type, mode |-> mode, owner |-> owner, group |-> group, length |-> 0]

\* MemoryStorage.Create (the caller has checked that the path is absent)
StorageCreate(st, path, info) ==
    Put(st, path, [content |-> <<>>, info |-> [info EXCEPT !.length = 0], refCount |-> 0])

\* mutant of MemoryStorage.Set: info.Length is left as it was
StorageSetKeepsLength(st, path, content, info) ==
    IF path \in DOMAIN st
    THEN [st EXCEPT ![path].content = content, ![path].info = info]
    ELSE Put(st, path, [content |-> content, info |-> info, refCount |-> 0])

\* mutant of MemoryStorage.Set: the record is replaced by a fresh one
StorageSetFreshRecord(st, path, content, info) ==
    Put(st, path, [content |-> content,
                   info |-> [info EXCEPT !.length = Len(content)],
                   refCount |-> 0])

\* MemoryStorage.Set
StorageSet(st, path, content, info) ==
    IF path \in DOMAIN st
    THEN [st EXCEPT ![path].content = content,
                    ![path].info = [info EXCEPT !.length = Len(content)]]
    ELSE Put(st, path, [content |-> content,
                        info |-> [info EXCEPT !.length = Len(content)],
                        refCount |-> 0])

\* MemoryStorage.IncRef (path present)
IncRef(st, path) == [st EXCEPT ![path].refCount = @ + 1]

\* MemoryStorage.DecRef (path present): saturates at 0
DecRef(st, path) ==
    [st EXCEPT ![path].refCount = IF @ > 0 THEN @ - 1 ELSE @]

\* mutant of CanDelete: the refCount is not looked at
CanDeleteOpenFile(st, path) == path \in DOMAIN st

\* MemoryStorage.Delete succeeds
CanDelete(st, path) == path \in DOMAIN st /\ ~(st[path].refCount > 0)

\* ---------------------------------------------------------------- FDTable
\* NewFDTable: nextFD starts at 3
NewFDTable == [handles |-> EmptyFn, nextFD |-> 3]

\* mutant of AllocateId: hands out the lowest id the table does not hold
AllocateIdLowestFree(tbl) ==
    CHOOSE fd \in 4..(tbl.nextFD + 1) :
       /\ fd \notin DOMAIN tbl.handles
       /\ \A g \in 4..(fd - 1) : g \in DOMAIN tbl.handles

\* FDTable.Allocate: the id handed out
AllocateId(tbl) == tbl.nextFD + 1

\* FDTable.Allocate: the table afterwards
Allocate(tbl, path, mode) ==
    [handles |-> Put(tbl.handles, AllocateId(tbl),
                     [fd |-> AllocateId(tbl), path |-> path, mode |-> mode, offset |-> 0]),
     nextFD |-> AllocateId(tbl)]

\* FDTable.Get succeeds
TableHas(tbl, fd) == fd \in DOMAIN tbl.handles

\* FDTable.Release (fd present)
Release(tbl, fd) == [tbl EXCEPT !.handles = Drop(@, fd)]

\* FDTable.CloseAll: the ids returned, and the table afterwards
CloseAllIds(tbl) == DOMAIN tbl.handles
CloseAll(tbl) == [tbl EXCEPT !.handles = EmptyFn]

\* ------------------------------------------------------ PermissionChecker
InGroups(groups, g) == \E i \in 1..Len(groups) : groups[i] = g

\* mutant of hasReadPermission: an owner without the owner bit falls through
\* to the group and other bits
hasReadPermissionFallthrough(info, user, groups) ==
    \/ info.owner = user /\ BitSet(info.mode, 256)
    \/ InGroups(groups, info.group) /\ BitSet(info.mode, 32)
    \/ BitSet(info.mode, 4)

hasReadPermission(info, user, groups) ==
    IF info.owner = user THEN BitSet(info.mode, 256)
    ELSE IF InGroups(groups, info.group) THEN BitSet(info.mode, 32)
    ELSE BitSet(info.mode, 4)

hasWritePermission(info, user, groups) ==
    IF info.owner = user THEN BitSet(info.mode, 128)
    ELSE IF InGroups(groups, info.group) THEN BitSet(info.mode, 16)
    ELSE BitSet(info.mode, 2)

\* mutant of hasExecutePermission: tests the read bits instead of the execute bits
hasExecutePermissionReadMask(info, user, groups) ==
    IF info.owner = user THEN BitSet(info.mode, 256)
    ELSE IF InGroups(groups, info.group) THEN BitSet(info.mode, 32)
    ELSE BitSet(info.mode, 4)

hasExecutePermission(info, user, groups) ==
    IF info.owner = user THEN BitSet(info.mode, 64)
    ELSE IF InGroups(groups, info.group) THEN BitSet(info.mode, 8)
    ELSE BitSet(info.mode, 1)

\* mutant of checkFilePermission: RDWR asks for the read bit only
checkFilePermissionRdwrReadOnly(info, mode, user, groups) ==
    CASE mode \in {"READ", "RDWR"} -> hasReadPermission(info, user, groups)
      [] mode \in {"WRITE", "TRUNC"} -> hasWritePermission(info, user, groups)
      [] mode = "EXEC" -> hasExecutePermission(info, user, groups)
      [] OTHER -> TRUE

\* checkFilePermission: TRUE when it returns nil
checkFilePermission(info, mode, user, groups) ==
    CASE mode = "READ" -> hasReadPermission(info, user, groups)
      [] mode \in {"WRITE", "TRUNC"} -> hasWritePermission(info, user, groups)
      [] mode = "RDWR" -> hasReadPermission(info, user, groups)
                          /\ hasWritePermission(info, user, groups)
      [] mode = "EXEC" -> hasExecutePermission(info, user, groups)
      [] OTHER -> TRUE

NoErr == [msg |-> "nil", path |-> <<>>]
Err(msg, path) == [msg |-> msg, path |-> path]

\* CheckPathPermissions: the loop over the components, from component i on
RECURSIVE walkPath(_, _, _, _, _, _)
walkPath(st, filePath, i, mode, user, groups) ==
    IF i > Len(filePath) THEN NoErr
    ELSE LET currentPath == SubSeq(filePath, 1, i)
             isFinal == (i = Len(filePath))
         IN IF currentPath \notin DOMAIN st
            THEN IF isFinal /\ mode = "WRITE" THEN NoErr
                 ELSE Err("no such file or directory", currentPath)
            ELSE IF isFinal
                 THEN IF ~checkFilePermission(st[currentPath].info, mode, user, groups)
                      THEN Err("permission denied", currentPath)
                      ELSE walkPath(st, filePath, i + 1, mode, user, groups)
                 ELSE IF st[currentPath].info.type # "DIRECTORY"
                      THEN Err("not a directory", currentPath)
                      ELSE IF ~hasExecutePermission(st[currentPath].info, user, groups)
                           THEN Err("permission denied (no execute) for directory", currentPath)
                           ELSE walkPath(st, filePath, i + 1, mode, user, groups)

\* mutant of CheckPathPermissions: only the final component is checked
CheckPathPermissionsFinalOnly(st, filePath, mode, user, groups) ==
    walkPath(st, filePath, Len(filePath), mode, user, groups)

CheckPathPermissions(st, filePath, mode, user, groups) ==
    walkPath(st, filePath, 1, mode, user, groups)

\* InodeServiceImpl.CheckPermission for a live session
CheckPermission(st, session, path, mode) ==
    LET err == CheckPathPermissions(st, path, mode, session.user, session.groups)
    IN IF err # NoErr THEN [granted |-> FALSE, reason |-> err]
       ELSE IF path \notin DOMAIN st
            THEN IF mode \in {"WRITE", "TRUNC"}
                 THEN [granted |-> TRUE, reason |-> NoErr]
                 ELSE [granted |-> FALSE, reason |-> Err("file not found", <<>>)]
            ELSE [granted |-> TRUE, reason |-> NoErr]

\* --------------------------------------------------------- SessionManager
\* SessionManager.Create: the Session stored under a fresh id
NewSession(user, groups) == [user |-> user, groups |-> groups, table |-> NewFDTable]

\* SessionManager.Close, cleanup loop: for every id CloseAll returned, the
\* handle is looked up in the table's List() as it is after CloseAll
RECURSIVE decRefAll(_, _, _)
decRefAll(st, fds, tbl) ==
    IF fds = {} THEN st
    ELSE LET fd == CHOOSE x \in fds : TRUE
         IN decRefAll(IF TableHas(tbl, fd) /\ tbl.handles[fd].path \in DOMAIN st
                      THEN DecRef(st, tbl.handles[fd].path)
                      ELSE st,
                      fds \ {fd}, tbl)

\* mutant of SMClose: no check that the session exists
SMCloseUnchecked(sm, st, sid) ==
    [ok |-> TRUE,
     sessions |-> Drop(sm, sid),
     files |-> IF sid \in DOMAIN sm
               THEN decRefAll(st, CloseAllIds(sm[sid].table), CloseAll(sm[sid].table))
               ELSE st,
     fds |-> {}]

\* SessionManager.Close
SMClose(sm, st, sid) ==
    IF sid \notin DOMAIN sm
    THEN [ok |-> FALSE, sessions |-> sm, files |-> st, fds |-> {}]
    ELSE [ok |-> TRUE,
          sessions |-> Drop(sm, sid),
          files |-> decRefAll(st, CloseAllIds(sm[sid].table), CloseAll(sm[sid].table)),
          fds |-> CloseAllIds(sm[sid].table)]

\* getSessionForFD: the sessions the scan over List() can return for fd
Holders(sm, fd) == { s \in DOMAIN sm : TableHas(sm[s].table, fd) }

\* ---------------------------------------------------------------- replies
NoInfo == [type |-> "none", mode |-> 0, owner |-> "", group |-> "", length |-> 0]

Reply(op, sid, fd, path, code, err) ==
    [op |-> op, sid |-> sid, fd |-> fd, path |-> path, mode |-> "", code |-> code,
     err |-> err, acted |-> {}, units |-> <<>>, info |-> NoInfo, n |-> 0,
     whole |-> FALSE, sent |-> <<>>, end |-> "", req |-> <<>>]

\* the path the caller's own table binds fd to (<<>> when it binds none)
OwnPath(sm, c, fd) ==
    IF c \in DOMAIN sm /\ TableHas(sm[c].table, fd)
    THEN sm[c].table.handles[fd].path ELSE <<>>

TypeOK ==
    /\ DOMAIN files \subseteq Paths
    /\ DOMAIN sessions \subseteq SessionIds
    /\ nextSid \in 0..MaxSessions
    /\ up \in BOOLEAN
    /\ budget \in Nat

Init ==
    /\ files = EmptyFn
    /\ sessions = EmptyFn
    /\ nextSid = 0
    /\ up = TRUE
    /\ last = Reply("init", 0, 0, <<>>, "OK", NoErr)
    /\ allocd = [s \in SessionIds |-> <<>>]
    /\ closedIds = {}
    /\ budget = MaxSteps
    /\ reads = EmptyFn
    /\ closes = EmptyFn
    /\ opens = EmptyFn
    /\ removed = EmptyFn
    /\ writes = EmptyFn
    /\ threads = EmptyFn
    /\ locks = NoLocks

\* one more handler step
Tick == budget > 0 /\ budget' = budget - 1

\* ------------------------------------------------------------- CreateSession
CreateSession(inp) ==
    /\ up
    /\ Tick
    /\ UNCHANGED <<reads, closes, opens, removed, writes, threads, locks>>
    /\ nextSid < MaxSessions
    /\ nextSid' = nextSid + 1
    /\ sessions' = Put(sessions, nextSid + 1, NewSession(inp.user, inp.groups))
    /\ last' = Reply("CreateSession", nextSid + 1, 0, <<>>, "OK", NoErr)
    /\ UNCHANGED <<files, up, allocd, closedIds>>

\* -------------------------------------------------------------- CloseSession
CloseSession(sid) ==
    /\ up
    /\ Tick
    /\ UNCHANGED <<reads, closes, opens, removed, writes, threads, locks>>
    /\ LET r == SMClose(sessions, files, sid)
       IN /\ sessions' = r.sessions
          /\ files' = r.files
          /\ last' = IF r.ok
                     THEN Reply("CloseSession", sid, 0, <<>>, "OK", NoErr)
                     ELSE Reply("CloseSession", sid, 0, <<>>, "NotFound",
                                Err("invalid or expired session", <<>>))
    /\ UNCHANGED <<nextSid, up, allocd, closedIds>>

\* ---------------------------------------------------------------------- Open
\* AllocateFd, from the allocation on: Allocate, then IncRef
OpenAllocate(st, sid, p, m) ==
    /\ sessions[sid].table.nextFD < 3 + MaxFD
    /\ sessions' = [sessions EXCEPT ![sid].table = Allocate(@, p, m)]
    /\ files' = IncRef(st, p)
    /\ allocd' = [allocd EXCEPT ![sid] = Append(@, AllocateId(sessions[sid].table))]
    /\ last' = [Reply("Open", sid, AllocateId(sessions[sid].table), p, "OK", NoErr)
                    EXCEPT !.mode = m, !.info = st[p].info]
    /\ UNCHANGED <<nextSid, up, closedIds>>

\* mutant of OpenFail: a failing Open leaves an empty record at the path
OpenFailCreates(sid, p, m, code, err) ==
    /\ last' = [Reply("Open", sid, 0, p, code, err) EXCEPT !.mode = m]
    /\ files' = IF p \in DOMAIN files THEN files
                ELSE StorageCreate(files, p, FileInfo("REGULAR", 420, "", ""))
    /\ UNCHANGED <<sessions, nextSid, up, allocd, closedIds>>

\* mutant of OpenFail: a failing Open uses up a descriptor id of its session
OpenFailUsesId(sid, p, m, code, err) ==
    /\ last' = [Reply("Open", sid, 0, p, code, err) EXCEPT !.mode = m]
    /\ sessions' = [s \in DOMAIN sessions |->
                      IF s = sid THEN [sessions[s] EXCEPT !.table.nextFD = @ + 1]
                      ELSE sessions[s]]
    /\ UNCHANGED <<files, nextSid, up, allocd, closedIds>>

OpenFail(sid, p, m, code, err) ==
    /\ last' = [Reply("Open", sid, 0, p, code, err) EXCEPT !.mode = m]
    /\ UNCHANGED <<files, sessions, nextSid, up, allocd, closedIds>>

\* Plan92ServiceImpl.Open: sessions.Get, CheckPermission, AllocateFd
Open(sid, p, m) ==
    /\ up
    /\ Tick
    /\ UNCHANGED <<reads, closes, opens, removed, writes, threads, locks>>
    /\ IF sid \notin DOMAIN sessions
       THEN OpenFail(sid, p, m, "Unauthenticated", Err("invalid or expired session", <<>>))
       ELSE LET perm == CheckPermission(files, sessions[sid], p, m)
            IN IF ~perm.granted
               THEN OpenFail(sid, p, m, "PermissionDenied", perm.reason)
               ELSE IF p \in DOMAIN files
                    THEN OpenAllocate(files, sid, p, m)
                    ELSE IF m \in {"WRITE", "TRUNC"}
                         THEN IF Len(sessions[sid].groups) = 0
                              THEN \* session.Groups[0]: index out of range
                                   /\ up' = FALSE
                                   /\ last' = [Reply("Open", sid, 0, p, "panic", NoErr)
                                                   EXCEPT !.mode = m]
                                   /\ UNCHANGED <<files, sessions, nextSid, allocd,
                                                  closedIds>>
                              ELSE OpenAllocate(
                                     StorageCreate(files, p,
                                        FileInfo("REGULAR", 420, sessions[sid].user,
                                                 sessions[sid].groups[1])),
                                     sid, p, m)
                         ELSE OpenFail(sid, p, m, "NotFound", Err("file not found", p))

\* ------------------------------------------------------- Open, step by step
\* The same handler at the grain of its lock acquisitions; calls run
\* concurrently with each other and with CloseSession:
\*   OpenBegin       Open: sessions.Get
\*   OpenCheck       CheckPermission: sessions.Get, CheckPathPermissions, storage.Get
\*   OpenSession     AllocateFd: sessions.Get, the *Session is kept from here on
\*   OpenFile        AllocateFd: storage.Get
\*   OpenCreate      AllocateFd: storage.Create, storage.Get
\*   OpenAllocateFd  AllocateFd: session.FDTable.Allocate
\*   OpenIncRef      AllocateFd: storage.IncRef, the reply
\* opens[k].pc is the next step of call k, "done" after its reply (code).
\* A Session deleted from the registry stays reachable through the pointer a
\* handler holds: removed[sid] is that object.
SessionObject(sid) == IF sid \in DOMAIN sessions THEN sessions[sid] ELSE removed[sid]

OpenReturn(k, code, err) ==
    /\ opens' = [opens EXCEPT ![k].pc = "done", ![k].code = code]
    /\ last' = [Reply("Open", opens[k].sid, 0, opens[k].path, code, err)
                   EXCEPT !.mode = opens[k].mode]

OpenContinue(k, pc) ==
    /\ opens' = [opens EXCEPT ![k].pc = pc]
    /\ last' = [Reply("Open", opens[k].sid, 0, opens[k].path, "pending", NoErr)
                   EXCEPT !.mode = opens[k].mode]

OpenBegin(k, sid, p, m) ==
    /\ up
    /\ Tick
    /\ k \notin DOMAIN opens
    /\ opens' = Put(opens, k,
                    [sid |-> sid, path |-> p, mode |-> m, fd |-> 0,
                     pc |-> IF sid \in DOMAIN sessions THEN "check" ELSE "done",
                     code |-> IF sid \in DOMAIN sessions THEN "pending"
                              ELSE "Unauthenticated"])
    /\ last' = [Reply("Open", sid, 0, p,
                      IF sid \in DOMAIN sessions THEN "pending" ELSE "Unauthenticated",
                      IF sid \in DOMAIN sessions THEN NoErr
                      ELSE Err("invalid or expired session", <<>>))
                   EXCEPT !.mode = m]
    /\ UNCHANGED <<files, sessions, nextSid, up, allocd, closedIds,
                   reads, closes, removed, writes, threads, locks>>

OpenCheck(k) ==
    /\ up
    /\ Tick
    /\ k \in DOMAIN opens
    /\ opens[k].pc = "check"
    /\ IF opens[k].sid \notin DOMAIN sessions
       THEN OpenReturn(k, "Unauthenticated", Err("invalid or expired session", <<>>))
       ELSE LET perm == CheckPermission(files, sessions[opens[k].sid],
                                        opens[k].path, opens[k].mode)
            IN IF perm.granted THEN OpenContinue(k, "session")
               ELSE OpenReturn(k, "PermissionDenied", perm.reason)
    /\ UNCHANGED <<files, sessions, nextSid, up, allocd, closedIds,
                   reads, closes, removed, writes, threads, locks>>

OpenSession(k) ==
    /\ up
    /\ Tick
    /\ k \in DOMAIN opens
    /\ opens[k].pc = "session"
    /\ IF opens[k].sid \notin DOMAIN sessions
       THEN OpenReturn(k, "Unauthenticated", Err("invalid or expired session", <<>>))
       ELSE OpenContinue(k, "file")
    /\ UNCHANGED <<files, sessions, nextSid, up, allocd, closedIds,
                   reads, closes, removed, writes, threads, locks>>

OpenFile(k) ==
    /\ up
    /\ Tick
    /\ k \in DOMAIN opens
    /\ opens[k].pc = "file"
    /\ IF opens[k].path \in DOMAIN files
       THEN OpenContinue(k, "allocate") /\ up' = up
       ELSE IF opens[k].mode \in {"WRITE", "TRUNC"}
            THEN IF Len(SessionObject(opens[k].sid).groups) = 0
                 THEN \* session.Groups[0]: index out of range
                      /\ up' = FALSE
                      /\ opens' = [opens EXCEPT ![k].pc = "done", ![k].code = "panic"]
                      /\ last' = [Reply("Open", opens[k].sid, 0, opens[k].path,
                                        "panic", NoErr)
                                     EXCEPT !.mode = opens[k].mode]
                 ELSE OpenContinue(k, "create") /\ up' = up
            ELSE /\ OpenReturn(k, "NotFound", Err("file not found", opens[k].path))
                 /\ up' = up
    /\ UNCHANGED <<files, sessions, nextSid, allocd, closedIds,
                   reads, closes, removed, writes, threads, locks>>

OpenCreate(k) ==
    /\ up
    /\ Tick
    /\ k \in DOMAIN opens
    /\ opens[k].pc = "create"
    /\ IF opens[k].path \in DOMAIN files
       THEN /\ OpenReturn(k, "Internal", Err("failed to create file", opens[k].path))
            /\ UNCHANGED files
       ELSE /\ files' = StorageCreate(files, opens[k].path,
                            FileInfo("REGULAR", 420, SessionObject(opens[k].sid).user,
                                     SessionObject(opens[k].sid).groups[1]))
            /\ OpenContinue(k, "allocate")
    /\ UNCHANGED <<sessions, nextSid, up, allocd, closedIds,
                   reads, closes, removed, writes, threads, locks>>

OpenAllocateFd(k) ==
    /\ up
    /\ Tick
    /\ k \in DOMAIN opens
    /\ opens[k].pc = "allocate"
    /\ LET sid == opens[k].sid
           fd == AllocateId(SessionObject(sid).table)
       IN /\ IF sid \in DOMAIN sessions
             THEN /\ sessions' = [sessions EXCEPT
                                    ![sid].table = Allocate(@, opens[k].path, opens[k].mode)]
                  /\ UNCHANGED removed
             ELSE /\ removed' = [removed EXCEPT
                                   ![sid].table = Allocate(@, opens[k].path, opens[k].mode)]
                  /\ UNCHANGED sessions
          /\ allocd' = [allocd EXCEPT ![sid] = Append(@, fd)]
          /\ opens' = [opens EXCEPT ![k].pc = "incref", ![k].fd = fd]
          /\ last' = [Reply("Open", sid, fd, opens[k].path, "pending", NoErr)
                         EXCEPT !.mode = opens[k].mode]
    /\ UNCHANGED <<files, nextSid, up, closedIds, reads, closes, writes, threads, locks>>

OpenIncRef(k) ==
    /\ up
    /\ Tick
    /\ k \in DOMAIN opens
    /\ opens[k].pc = "incref"
    /\ LET sid == opens[k].sid
       IN IF opens[k].path \notin DOMAIN files
          THEN \* session.FDTable.Release(fd), "failed to increment refcount"
               /\ IF sid \in DOMAIN sessions
                  THEN /\ sessions' = [sessions EXCEPT
                                         ![sid].table = Release(@, opens[k].fd)]
                       /\ UNCHANGED removed
                  ELSE /\ removed' = [removed EXCEPT
                                        ![sid].table = Release(@, opens[k].fd)]
                       /\ UNCHANGED sessions
               /\ OpenReturn(k, "Internal",
                             Err("failed to increment refcount", opens[k].path))
               /\ UNCHANGED files
          ELSE /\ files' = IncRef(files, opens[k].path)
               /\ opens' = [opens EXCEPT ![k].pc = "done", ![k].code = "OK"]
               /\ last' = [Reply("Open", sid, opens[k].fd, opens[k].path, "OK", NoErr)
                              EXCEPT !.mode = opens[k].mode,
                                     !.info = files[opens[k].path].info]
               /\ UNCHANGED <<sessions, removed>>
    /\ UNCHANGED <<nextSid, up, allocd, closedIds, reads, closes, writes, threads, locks>>

\* SessionManager.Close while handlers may hold the *Session: as CloseSession,
\* and the deleted object, its table emptied by CloseAll, stays reachable
CloseSessionHeld(sid) ==
    /\ up
    /\ Tick
    /\ LET r == SMClose(sessions, files, sid)
       IN /\ sessions' = r.sessions
          /\ files' = r.files
          /\ removed' = IF r.ok
                        THEN Put(removed, sid, [sessions[sid] EXCEPT !.table = CloseAll(@)])
                        ELSE removed
          /\ last' = IF r.ok
                     THEN Reply("CloseSession", sid, 0, <<>>, "OK", NoErr)
                     ELSE Reply("CloseSession", sid, 0, <<>>, "NotFound",
                                Err("invalid or expired session", <<>>))
    /\ UNCHANGED <<nextSid, up, allocd, closedIds, reads, closes, opens, writes,
                   threads, locks>>

\* --------------------------------------------------------------------- Close
\* mutant of Close: an id that no session holds is reported closed
CloseIdempotent(c, fd) ==
    /\ up
    /\ Tick
    /\ UNCHANGED <<reads, closes, opens, removed, writes, threads, locks>>
    /\ c \in 1..nextSid
    /\ IF Holders(sessions, fd) = {}
       THEN /\ last' = Reply("Close", c, fd, OwnPath(sessions, c, fd), "OK", NoErr)
            /\ UNCHANGED <<files, sessions, closedIds>>
       ELSE \E x \in Holders(sessions, fd), y \in Holders(sessions, fd) :
              LET h == sessions[x].table.handles[fd]
              IN IF h.path \notin DOMAIN files
                 THEN /\ last' = [Reply("Close", c, fd, OwnPath(sessions, c, fd), "Internal",
                                        Err("failed to decrement refcount", h.path))
                                      EXCEPT !.acted = {x}]
                      /\ UNCHANGED <<files, sessions, closedIds>>
                 ELSE /\ files' = DecRef(files, h.path)
                      /\ sessions' = [sessions EXCEPT ![y].table = Release(@, fd)]
                      /\ closedIds' = closedIds \cup {fd}
                      /\ last' = [Reply("Close", c, fd, OwnPath(sessions, c, fd), "OK", NoErr)
                                      EXCEPT !.acted = {x, y}]
    /\ UNCHANGED <<nextSid, up, allocd>>

\* Plan92ServiceImpl.Close: getAndValidateFD (session x), DecRef,
\* getSessionForFD again (session y), Release
Close(c, fd) ==
    /\ up
    /\ Tick
    /\ UNCHANGED <<reads, closes, opens, removed, writes, threads, locks>>
    /\ c \in 1..nextSid
    /\ IF Holders(sessions, fd) = {}
       THEN /\ last' = Reply("Close", c, fd, OwnPath(sessions, c, fd), "InvalidArgument",
                             Err("file descriptor not found in any session", <<>>))
            /\ UNCHANGED <<files, sessions, closedIds>>
       ELSE \E x \in Holders(sessions, fd), y \in Holders(sessions, fd) :
              LET h == sessions[x].table.handles[fd]
              IN IF h.path \notin DOMAIN files
                 THEN /\ last' = [Reply("Close", c, fd, OwnPath(sessions, c, fd), "Internal",
                                        Err("failed to decrement refcount", h.path))
                                      EXCEPT !.acted = {x}]
                      /\ UNCHANGED <<files, sessions, closedIds>>
                 ELSE /\ files' = DecRef(files, h.path)
                      /\ sessions' = [sessions EXCEPT ![y].table = Release(@, fd)]
                      /\ closedIds' = closedIds \cup {fd}
                      /\ last' = [Reply("Close", c, fd, OwnPath(sessions, c, fd), "OK", NoErr)
                                      EXCEPT !.acted = {x, y}]
    /\ UNCHANGED <<nextSid, up, allocd>>

\* ------------------------------------------------------ Close, step by step
\* The same handler at the grain of its lock acquisitions; calls run
\* concurrently, each on its own goroutine:
\*   CloseBegin    getAndValidateFD: getSessionForFD
\*   CloseGet      getAndValidateFD: session.FDTable.Get
\*   CloseDecRef   storage.DecRef(handle.Path)
\*   CloseResolve  getSessionForFD again
\*   CloseRelease  session.FDTable.Release, the reply
\* closes[k].pc is the next step of call k, "done" after its reply (code).
CloseReturn(k, code, err) ==
    /\ closes' = [closes EXCEPT ![k].pc = "done", ![k].code = code]
    /\ last' = [Reply("Close", closes[k].c, closes[k].fd,
                      OwnPath(sessions, closes[k].c, closes[k].fd), code, err)
                   EXCEPT !.acted = {closes[k].sess} \ {0}]

CloseContinue(k) ==
    last' = [Reply("Close", closes[k].c, closes[k].fd,
                   OwnPath(sessions, closes[k].c, closes[k].fd), "pending", NoErr)
                EXCEPT !.acted = {closes'[k].sess} \ {0}]

CloseBegin(k, c, fd) ==
    /\ up
    /\ Tick
    /\ UNCHANGED <<reads, opens, removed, writes, threads, locks>>
    /\ c \in 1..nextSid
    /\ k \notin DOMAIN closes
    /\ IF Holders(sessions, fd) = {}
       THEN /\ closes' = Put(closes, k, [c |-> c, fd |-> fd, sess |-> 0, path |-> <<>>,
                                         pc |-> "done", code |-> "InvalidArgument"])
            /\ last' = Reply("Close", c, fd, OwnPath(sessions, c, fd), "InvalidArgument",
                             Err("file descriptor not found in any session", <<>>))
       ELSE \E x \in Holders(sessions, fd) :
              /\ closes' = Put(closes, k, [c |-> c, fd |-> fd, sess |-> x, path |-> <<>>,
                                           pc |-> "get", code |-> "pending"])
              /\ last' = [Reply("Close", c, fd, OwnPath(sessions, c, fd), "pending", NoErr)
                             EXCEPT !.acted = {x}]
    /\ UNCHANGED <<files, sessions, nextSid, up, allocd, closedIds>>

CloseGet(k) ==
    /\ up
    /\ Tick
    /\ UNCHANGED <<reads, opens, removed, writes, threads, locks>>
    /\ k \in DOMAIN closes
    /\ closes[k].pc = "get"
    /\ IF closes[k].sess \in DOMAIN sessions
          /\ TableHas(sessions[closes[k].sess].table, closes[k].fd)
       THEN /\ closes' = [closes EXCEPT
                            ![k].pc = "decref",
                            ![k].path = sessions[closes[k].sess].table.handles[closes[k].fd].path]
            /\ CloseContinue(k)
       ELSE CloseReturn(k, "InvalidArgument", Err("invalid file descriptor", <<>>))
    /\ UNCHANGED <<files, sessions, nextSid, up, allocd, closedIds>>

CloseDecRef(k) ==
    /\ up
    /\ Tick
    /\ UNCHANGED <<reads, opens, removed, writes, threads, locks>>
    /\ k \in DOMAIN closes
    /\ closes[k].pc = "decref"
    /\ IF closes[k].path \notin DOMAIN files
       THEN /\ CloseReturn(k, "Internal", Err("failed to decrement refcount", closes[k].path))
            /\ UNCHANGED files
       ELSE /\ files' = DecRef(files, closes[k].path)
            /\ closes' = [closes EXCEPT ![k].pc = "resolve"]
            /\ CloseContinue(k)
    /\ UNCHANGED <<sessions, nextSid, up, allocd, closedIds>>

CloseResolve(k) ==
    /\ up
    /\ Tick
    /\ UNCHANGED <<reads, opens, removed, writes, threads, locks>>
    /\ k \in DOMAIN closes
    /\ closes[k].pc = "resolve"
    /\ IF Holders(sessions, closes[k].fd) = {}
       THEN CloseReturn(k, "InvalidArgument",
                        Err("file descriptor not found in any session", <<>>))
       ELSE \E y \in Holders(sessions, closes[k].fd) :
              /\ closes' = [closes EXCEPT ![k].pc = "release", ![k].sess = y]
              /\ CloseContinue(k)
    /\ UNCHANGED <<files, sessions, nextSid, up, allocd, closedIds>>

CloseRelease(k) ==
    /\ up
    /\ Tick
    /\ UNCHANGED <<reads, opens, removed, writes, threads, locks>>
    /\ k \in DOMAIN closes
    /\ closes[k].pc = "release"
    /\ IF closes[k].sess \in DOMAIN sessions
          /\ TableHas(sessions[closes[k].sess].table, closes[k].fd)
       THEN /\ sessions' = [sessions EXCEPT
                              ![closes[k].sess].table = Release(@, closes[k].fd)]
            /\ closedIds' = closedIds \cup {closes[k].fd}
            /\ CloseReturn(k, "OK", NoErr)
       ELSE /\ CloseReturn(k, "InvalidArgument", Err("failed to release FD", <<>>))
            /\ UNCHANGED <<sessions, closedIds>>
    /\ UNCHANGED <<files, nextSid, up, allocd>>

\* ---------------------------------------------------------------------- Read
\* Read, chunking loop: content cut into chunks of at most chunkSize bytes
RECURSIVE Chunks(_)
Chunks(content) ==
    IF Len(content) = 0 THEN <<>>
    ELSE LET end == IF chunkSize > Len(content) THEN Len(content) ELSE chunkSize
         IN <<[kind |-> "chunk", data |-> SubSeq(content, 1, end)]>>
            \o Chunks(SubSeq(content, end + 1, Len(content)))

\* Read, "Determine read parameters": the bytes selected for streaming
\* (the caller has checked offset <= Len(content); lengths and offsets
\* here stay far below 2^31, where the int32 conversions are the identity)
ReadRange(content, hOffset, reqOffset, reqCount) ==
    LET offset == IF reqOffset < 0 THEN hOffset ELSE reqOffset
        count == IF reqCount <= 0
                 THEN Len(content) - offset
                 ELSE reqCount
        rest == SubSeq(content, offset + 1, Len(content))
    IN IF Len(rest) > count THEN SubSeq(rest, 1, count) ELSE rest

ReadFail(c, fd, req, code, err, acted) ==
    /\ last' = [Reply("Read", c, fd, OwnPath(sessions, c, fd), code, err)
                    EXCEPT !.acted = acted, !.req = req]
    /\ up' = up

\* mutant of OffsetAfterRead: a read from the current position advances it
OffsetAfterReadStored(h, reqOffset, count) ==
    IF reqOffset < 0 THEN h.offset + count ELSE h.offset

\* Read, "Update FD offset if using current position": newOffset is computed
\* and discarded, the handle keeps its offset
OffsetAfterRead(h, reqOffset, count) == h.offset

\* Plan92ServiceImpl.Read
Read(c, fd, reqOffset, reqCount) ==
    /\ up
    /\ Tick
    /\ UNCHANGED <<reads, closes, opens, removed, writes, threads, locks>>
    /\ c \in 1..nextSid
    /\ IF Holders(sessions, fd) = {}
       THEN /\ ReadFail(c, fd, <<reqOffset, reqCount>>, "InvalidArgument",
                        Err("file descriptor not found in any session", <<>>), {})
            /\ UNCHANGED sessions
       ELSE \E x \in Holders(sessions, fd) :
              LET h == sessions[x].table.handles[fd]
              IN IF h.mode \notin {"READ", "RDWR"}
                 THEN /\ ReadFail(c, fd, <<reqOffset, reqCount>>, "PermissionDenied",
                                  Err("file not opened for reading", <<>>), {x})
                      /\ UNCHANGED sessions
                 ELSE IF h.path \notin DOMAIN files
                      THEN /\ ReadFail(c, fd, <<reqOffset, reqCount>>, "NotFound",
                                       Err("file not found", h.path), {x})
                           /\ UNCHANGED sessions
                      ELSE LET data == files[h.path]
                               meta == [kind |-> "metadata", fd |-> fd,
                                        totalSize |-> data.info.length, info |-> data.info]
                               offset == IF reqOffset < 0 THEN h.offset ELSE reqOffset
                               count == IF reqCount <= 0
                                        THEN Len(data.content) - offset
                                        ELSE reqCount
                           IN IF offset > Len(data.content)
                              THEN \* data.Content[offset:]: slice bounds out of range
                                   /\ up' = FALSE
                                   /\ last' = [Reply("Read", c, fd, OwnPath(sessions, c, fd),
                                                     "panic", NoErr)
                                                  EXCEPT !.acted = {x}, !.units = <<meta>>,
                                                         !.req = <<reqOffset, reqCount>>]
                                   /\ UNCHANGED sessions
                              ELSE /\ up' = up
                                   /\ last' = [Reply("Read", c, fd, OwnPath(sessions, c, fd),
                                                     "OK", NoErr)
                                                  EXCEPT !.acted = {x},
                                                         !.req = <<reqOffset, reqCount>>,
                                                         !.whole = (reqOffset < 0 /\ reqCount < 0),
                                                         !.units = <<meta>> \o
                                                            Chunks(ReadRange(data.content, h.offset,
                                                                             reqOffset, reqCount))]
                                   /\ sessions' =
                                        [sessions EXCEPT ![x].table.handles[fd].offset =
                                            OffsetAfterRead(h, reqOffset, count)]
    /\ UNCHANGED <<files, nextSid, allocd, closedIds>>

\* ------------------------------------------------------- Read, step by step
\* The same handler at the grain of its accesses to the shared FileData
\* record, none of which holds the storage lock:
\*   ReadBegin   getAndValidateFD, the mode check, storage.Get, the metadata Send
\*   ReadParams  "Determine read parameters": count from len(data.Content)
\*   ReadSend    content := data.Content[offset:], the chunk loop, return nil
\*   ReadCancel  the Send of the first chunk fails (the transport cancelled the
\*               call): the handler returns Internal
\* reads[c].pre is history: the content of the file when the handler began.
ReadBegin(c, fd, reqOffset, reqCount) ==
    /\ up
    /\ Tick
    /\ UNCHANGED <<closes, opens, removed, writes, threads, locks>>
    /\ c \in 1..nextSid
    /\ c \notin DOMAIN reads
    /\ IF Holders(sessions, fd) = {}
       THEN /\ ReadFail(c, fd, <<reqOffset, reqCount>>, "InvalidArgument",
                        Err("file descriptor not found in any session", <<>>), {})
            /\ UNCHANGED reads
       ELSE \E x \in Holders(sessions, fd) :
              LET h == sessions[x].table.handles[fd]
              IN IF h.mode \notin {"READ", "RDWR"}
                 THEN /\ ReadFail(c, fd, <<reqOffset, reqCount>>, "PermissionDenied",
                                  Err("file not opened for reading", <<>>), {x})
                      /\ UNCHANGED reads
                 ELSE IF h.path \notin DOMAIN files
                      THEN /\ ReadFail(c, fd, <<reqOffset, reqCount>>, "NotFound",
                                    Err("file not found", h.path), {x})
                           /\ UNCHANGED reads
                      ELSE /\ up' = up
                           /\ reads' = Put(reads, c,
                                 [fd |-> fd, sess |-> x, path |-> h.path,
                                  offset |-> IF reqOffset < 0 THEN h.offset ELSE reqOffset,
                                  reqOffset |-> reqOffset, reqCount |-> reqCount,
                                  pc |-> "params", count |-> 0,
                                  meta |-> [kind |-> "metadata", fd |-> fd,
                                            totalSize |-> files[h.path].info.length,
                                            info |-> files[h.path].info],
                                  pre |-> files[h.path].content])
                           /\ last' = [Reply("Read", c, fd, OwnPath(sessions, c, fd),
                                             "pending", NoErr)
                                          EXCEPT !.acted = {x}, !.req = <<reqOffset, reqCount>>]
    /\ UNCHANGED <<files, sessions, nextSid, allocd, closedIds>>

ReadParams(c) ==
    /\ up
    /\ Tick
    /\ UNCHANGED <<closes, opens, removed, writes, threads, locks>>
    /\ c \in DOMAIN reads
    /\ reads[c].pc = "params"
    /\ reads[c].path \in DOMAIN files
    /\ reads' = [reads EXCEPT ![c].pc = "send",
                              ![c].count = IF reads[c].reqCount <= 0
                                           THEN Len(files[reads[c].path].content)
                                                - reads[c].offset
                                           ELSE reads[c].reqCount]
    /\ last' = [Reply("Read", c, reads[c].fd, OwnPath(sessions, c, reads[c].fd),
                      "pending", NoErr)
                   EXCEPT !.acted = {reads[c].sess},
                          !.req = <<reads[c].reqOffset, reads[c].reqCount>>]
    /\ UNCHANGED <<files, sessions, nextSid, up, allocd, closedIds>>

ReadSend(c) ==
    /\ up
    /\ Tick
    /\ UNCHANGED <<closes, opens, removed, writes, threads, locks>>
    /\ c \in DOMAIN reads
    /\ reads[c].pc = "send"
    /\ reads[c].path \in DOMAIN files
    /\ reads' = Drop(reads, c)
    /\ LET r == reads[c]
           content == files[r.path].content
           rest == SubSeq(content, r.offset + 1, Len(content))
       IN IF r.offset > Len(content) \/ (Len(rest) > r.count /\ r.count < 0)
          THEN \* slice bounds out of range
               /\ up' = FALSE
               /\ last' = [Reply("Read", c, r.fd, OwnPath(sessions, c, r.fd), "panic", NoErr)
                              EXCEPT !.acted = {r.sess}, !.units = <<r.meta>>,
                                     !.req = <<r.reqOffset, r.reqCount>>]
          ELSE /\ up' = up
               /\ last' = [Reply("Read", c, r.fd, OwnPath(sessions, c, r.fd), "OK", NoErr)
                              EXCEPT !.acted = {r.sess},
                                     !.req = <<r.reqOffset, r.reqCount>>,
                                     !.whole = (r.reqOffset < 0 /\ r.reqCount < 0),
                                     !.units = <<r.meta>> \o
                                        Chunks(IF Len(rest) > r.count
                                               THEN SubSeq(rest, 1, r.count) ELSE rest)]
    /\ UNCHANGED <<files, sessions, nextSid, allocd, closedIds>>

\* mutant of ReadCancel: the cancelled Read closes the descriptor it used
ReadCancelReleases(c) ==
    /\ up
    /\ Tick
    /\ UNCHANGED <<closes, opens, removed, writes, threads, locks>>
    /\ c \in DOMAIN reads
    /\ reads[c].pc = "send"
    /\ reads[c].path \in DOMAIN files
    /\ reads[c].offset < Len(files[reads[c].path].content)
    /\ reads[c].count > 0
    /\ reads' = Drop(reads, c)
    /\ last' = [Reply("Read", c, reads[c].fd, OwnPath(sessions, c, reads[c].fd), "Internal",
                      Err("failed to send chunk", <<>>))
                   EXCEPT !.acted = {reads[c].sess}, !.units = <<reads[c].meta>>,
                          !.req = <<reads[c].reqOffset, reads[c].reqCount>>]
    /\ files' = DecRef(files, reads[c].path)
    /\ sessions' = [s \in DOMAIN sessions |->
                      IF s = reads[c].sess
                      THEN [sessions[s] EXCEPT !.table = Release(@, reads[c].fd)]
                      ELSE sessions[s]]
    /\ UNCHANGED <<nextSid, up, allocd, closedIds>>

ReadCancel(c) ==
    /\ up
    /\ Tick
    /\ UNCHANGED <<closes, opens, removed, writes, threads, locks>>
    /\ c \in DOMAIN reads
    /\ reads[c].pc = "send"
    /\ reads[c].path \in DOMAIN files
    /\ reads[c].offset < Len(files[reads[c].path].content)
    /\ reads[c].count > 0
    /\ reads' = Drop(reads, c)
    /\ last' = [Reply("Read", c, reads[c].fd, OwnPath(sessions, c, reads[c].fd), "Internal",
                      Err("failed to send chunk", <<>>))
                   EXCEPT !.acted = {reads[c].sess}, !.units = <<reads[c].meta>>,
                          !.req = <<reads[c].reqOffset, reads[c].reqCount>>]
    /\ UNCHANGED <<files, sessions, nextSid, up, allocd, closedIds>>

\* --------------------------------------------------------------------- Write
Meta(fd, offset, totalSize) ==
    [kind |-> "metadata", fd |-> fd, offset |-> offset, totalSize |-> totalSize]
Chunk(data) == [kind |-> "chunk", data |-> data]

\* mutant of OpenedForWriting: a READ descriptor passes the check
OpenedForWritingOrReading(mode) == mode \in {"WRITE", "RDWR", "TRUNC", "READ"}

\* Write, "Check if FD is opened for writing"
OpenedForWriting(mode) == mode \in {"WRITE", "RDWR", "TRUNC"}

\* Write, receive loop from unit i on.  res[i] is the session getAndValidateFD
\* resolves the i-th unit's fd to (0: none).  acc.code # "OK" is an early return.
RECURSIVE recvLoop(_, _, _, _, _)
recvLoop(sm, units, res, i, acc) ==
    IF i > Len(units) THEN acc
    ELSE IF units[i].kind = "chunk"
         THEN recvLoop(sm, units, res, i + 1,
                       [acc EXCEPT !.buffer = @ \o units[i].data])
         ELSE IF res[i] = 0
              THEN [acc EXCEPT !.fd = units[i].fd, !.offset = units[i].offset,
                               !.code = "InvalidArgument",
                               !.err = Err("file descriptor not found in any session", <<>>)]
              ELSE IF ~OpenedForWriting(sm[res[i]].table.handles[units[i].fd].mode)
                   THEN [acc EXCEPT !.fd = units[i].fd, !.offset = units[i].offset,
                                    !.sess = res[i], !.code = "PermissionDenied",
                                    !.err = Err("file not opened for writing", <<>>)]
                   ELSE recvLoop(sm, units, res, i + 1,
                                 [acc EXCEPT !.fd = units[i].fd, !.offset = units[i].offset,
                                             !.sess = res[i], !.buffer = <<>>])

RecvStart == [fd |-> 0, sess |-> 0, offset |-> -1, buffer |-> <<>>,
              code |-> "OK", err |-> NoErr]

\* mutant of WriteContent: the bytes after the written range are not kept
WriteContentNoSuffix(existing, offset, mode, buffer) ==
    IF offset < 0 \/ mode = "TRUNC" THEN buffer
    ELSE LET padded == IF Len(existing) < offset
                       THEN existing \o [i \in 1..(offset - Len(existing)) |-> 0]
                       ELSE existing
         IN SubSeq(padded, 1, offset) \o buffer

\* Write, "Write data to storage": the new content
WriteContent(existing, offset, mode, buffer) ==
    IF offset < 0 \/ mode = "TRUNC" THEN buffer
    ELSE LET padded == IF Len(existing) < offset
                       THEN existing \o [i \in 1..(offset - Len(existing)) |-> 0]
                       ELSE existing
         IN SubSeq(padded, 1, offset) \o buffer \o
            (IF Len(padded) > offset + Len(buffer)
             THEN SubSeq(padded, offset + Len(buffer) + 1, Len(padded))
             ELSE <<>>)

\* what the client sent: the first metadata unit's fd, the chunks in order
RECURSIVE SentBody(_)
SentBody(units) ==
    IF Len(units) = 0 THEN <<>>
    ELSE (IF Head(units).kind = "chunk" THEN Head(units).data ELSE <<>>)
         \o SentBody(Tail(units))
SentFd(units) ==
    IF \E i \in 1..Len(units) : units[i].kind = "metadata"
    THEN units[CHOOSE i \in 1..Len(units) :
                 /\ units[i].kind = "metadata"
                 /\ \A j \in 1..(i - 1) : units[j].kind # "metadata"].fd
    ELSE 0
WholeFileStream(units) ==
    /\ Len(units) > 0
    /\ units[1].kind = "metadata"
    /\ units[1].offset < 0
    /\ \A i \in 2..Len(units) : units[i].kind = "chunk"

\* mutant of RecvEnd: a receive error ends the loop like io.EOF
RecvEndIgnoresError(acc, end) == acc

\* Write, the end of the receive loop: stream.Recv returns io.EOF (the loop
\* breaks) or another error (the handler returns Internal)
RecvEnd(acc, end) ==
    IF acc.code # "OK" THEN acc
    ELSE IF end = "ERR"
         THEN [acc EXCEPT !.code = "Internal",
                          !.err = Err("failed to receive chunk", <<>>)]
         ELSE acc

\* mutant of WriteFail: the failure is not reported
WriteFailSilent(c, units, end, code, err, acted) ==
    /\ last' = [Reply("Write", c, SentFd(units), OwnPath(sessions, c, SentFd(units)), "OK", NoErr)
                    EXCEPT !.acted = acted, !.whole = WholeFileStream(units),
                           !.sent = SentBody(units), !.units = units, !.end = end]
    /\ UNCHANGED files

WriteFail(c, units, end, code, err, acted) ==
    /\ last' = [Reply("Write", c, SentFd(units), OwnPath(sessions, c, SentFd(units)), code, err)
                    EXCEPT !.acted = acted, !.whole = WholeFileStream(units),
                           !.sent = SentBody(units), !.units = units, !.end = end]
    /\ UNCHANGED files

\* Plan92ServiceImpl.Write; end is "EOF", or "ERR" when Recv fails after units
Write(c, units, end) ==
    /\ up
    /\ Tick
    /\ UNCHANGED <<reads, closes, opens, removed, writes, threads, locks>>
    /\ c \in 1..nextSid
    /\ \E res \in [1..Len(units) -> (DOMAIN sessions) \cup {0}] :
         /\ \A i \in 1..Len(units) :
              IF units[i].kind = "metadata" /\ Holders(sessions, units[i].fd) # {}
              THEN res[i] \in Holders(sessions, units[i].fd)
              ELSE res[i] = 0
         /\ LET acc == RecvEnd(recvLoop(sessions, units, res, 1, RecvStart), end)
                acted == IF acc.sess = 0 THEN {} ELSE {acc.sess}
                own == OwnPath(sessions, c, SentFd(units))
            IN IF acc.code # "OK" THEN WriteFail(c, units, end, acc.code, acc.err, acted)
               ELSE IF acc.sess = 0
                    THEN WriteFail(c, units, end, "InvalidArgument",
                                   Err("no metadata received", <<>>), acted)
               ELSE LET h == sessions[acc.sess].table.handles[acc.fd]
                    IN IF h.path \notin DOMAIN files
                       THEN WriteFail(c, units, end, "NotFound",
                                      Err("file not found", h.path), acted)
                       ELSE /\ files' = StorageSet(files, h.path,
                                           WriteContent(files[h.path].content, acc.offset,
                                                        h.mode, acc.buffer),
                                           files[h.path].info)
                            /\ last' = [Reply("Write", c, acc.fd, own, "OK", NoErr)
                                           EXCEPT !.acted = acted, !.n = Len(acc.buffer),
                                                  !.whole = WholeFileStream(units),
                                                  !.sent = SentBody(units),
                                                  !.units = units, !.end = end]
    /\ UNCHANGED <<sessions, nextSid, up, allocd, closedIds>>

\* ------------------------------------------------------ Write, step by step
\* The same handler at the grain of its accesses to the storage; calls run
\* concurrently, each on its own goroutine:
\*   WriteRecv     the receive loop up to io.EOF, "no metadata received"
\*   WriteGet      storage.Get(handle.Path): the *FileData
\*   WriteCompute  newContent from data.Content, read without the storage lock
\*   WriteSet      storage.Set, the reply
\* writes[k].pc is the next step of call k, "done" after its reply (code).
WriteReturn(k, code, err) ==
    /\ writes' = [writes EXCEPT ![k].pc = "done", ![k].code = code]
    /\ last' = [Reply("Write", writes[k].c, writes[k].fd,
                      OwnPath(sessions, writes[k].c, writes[k].fd), code, err)
                   EXCEPT !.units = writes[k].units, !.end = "EOF",
                          !.sent = SentBody(writes[k].units),
                          !.whole = WholeFileStream(writes[k].units)]

WriteContinue(k) ==
    last' = [Reply("Write", writes[k].c, writes[k].fd,
                   OwnPath(sessions, writes[k].c, writes[k].fd), "pending", NoErr)
                EXCEPT !.units = writes[k].units, !.end = "EOF",
                       !.sent = SentBody(writes[k].units),
                       !.whole = WholeFileStream(writes[k].units)]

WriteRecv(k, c, units) ==
    /\ up
    /\ Tick
    /\ c \in 1..nextSid
    /\ k \notin DOMAIN writes
    /\ \E res \in [1..Len(units) -> (DOMAIN sessions) \cup {0}] :
         /\ \A i \in 1..Len(units) :
              IF units[i].kind = "metadata" /\ Holders(sessions, units[i].fd) # {}
              THEN res[i] \in Holders(sessions, units[i].fd)
              ELSE res[i] = 0
         /\ LET acc == recvLoop(sessions, units, res, 1, RecvStart)
                failed == acc.code # "OK" \/ acc.sess = 0
                code == IF acc.code # "OK" THEN acc.code
                        ELSE IF acc.sess = 0 THEN "InvalidArgument" ELSE "pending"
                err == IF acc.code # "OK" THEN acc.err
                       ELSE IF acc.sess = 0 THEN Err("no metadata received", <<>>)
                       ELSE NoErr
            IN /\ writes' = Put(writes, k,
                     [c |-> c, units |-> units, fd |-> SentFd(units),
                      path |-> IF failed THEN <<>>
                               ELSE sessions[acc.sess].table.handles[acc.fd].path,
                      mode |-> IF failed THEN ""
                               ELSE sessions[acc.sess].table.handles[acc.fd].mode,
                      offset |-> acc.offset, buffer |-> acc.buffer,
                      newContent |-> <<>>,
                      pc |-> IF failed THEN "done" ELSE "get", code |-> code])
               /\ last' = [Reply("Write", c, SentFd(units),
                                 OwnPath(sessions, c, SentFd(units)), code, err)
                              EXCEPT !.units = units, !.end = "EOF",
                                     !.sent = SentBody(units),
                                     !.whole = WholeFileStream(units)]
    /\ UNCHANGED <<files, sessions, nextSid, up, allocd, closedIds,
                   reads, closes, opens, removed, threads, locks>>

WriteGet(k) ==
    /\ up
    /\ Tick
    /\ k \in DOMAIN writes
    /\ writes[k].pc = "get"
    /\ IF writes[k].path \in DOMAIN files
       THEN /\ writes' = [writes EXCEPT ![k].pc = "compute"]
            /\ WriteContinue(k)
       ELSE WriteReturn(k, "NotFound", Err("file not found", writes[k].path))
    /\ UNCHANGED <<files, sessions, nextSid, up, allocd, closedIds,
                   reads, closes, opens, removed, threads, locks>>

WriteCompute(k) ==
    /\ up
    /\ Tick
    /\ k \in DOMAIN writes
    /\ writes[k].pc = "compute"
    /\ writes[k].path \in DOMAIN files
    /\ writes' = [writes EXCEPT
                    ![k].pc = "set",
                    ![k].newContent = WriteContent(files[writes[k].path].content,
                                                   writes[k].offset, writes[k].mode,
                                                   writes[k].buffer)]
    /\ WriteContinue(k)
    /\ UNCHANGED <<files, sessions, nextSid, up, allocd, closedIds,
                   reads, closes, opens, removed, threads, locks>>

WriteSet(k) ==
    /\ up
    /\ Tick
    /\ k \in DOMAIN writes
    /\ writes[k].pc = "set"
    /\ writes[k].path \in DOMAIN files
    /\ files' = StorageSet(files, writes[k].path, writes[k].newContent,
                           files[writes[k].path].info)
    /\ writes' = [writes EXCEPT ![k].pc = "done", ![k].code = "OK"]
    /\ last' = [Reply("Write", writes[k].c, writes[k].fd,
                      OwnPath(sessions, writes[k].c, writes[k].fd), "OK", NoErr)
                   EXCEPT !.units = writes[k].units, !.end = "EOF",
                          !.sent = SentBody(writes[k].units),
                          !.whole = WholeFileStream(writes[k].units),
                          !.n = Len(writes[k].buffer)]
    /\ UNCHANGED <<sessions, nextSid, up, allocd, closedIds,
                   reads, closes, opens, removed, threads, locks>>

\* ---------------------------------------------------------------------- Stat
\* mutant of Stat: no session check
StatUnchecked(sid, p) ==
    /\ up
    /\ Tick
    /\ UNCHANGED <<reads, closes, opens, removed, writes, threads, locks>>
    /\ last' = IF p \notin DOMAIN files
               THEN Reply("Stat", sid, 0, p, "NotFound", Err("file not found", p))
               ELSE [Reply("Stat", sid, 0, p, "OK", NoErr) EXCEPT !.info = files[p].info]
    /\ UNCHANGED <<files, sessions, nextSid, up, allocd, closedIds>>

Stat(sid, p) ==
    /\ up
    /\ Tick
    /\ UNCHANGED <<reads, closes, opens, removed, writes, threads, locks>>
    /\ last' = IF sid \notin DOMAIN sessions
               THEN Reply("Stat", sid, 0, p, "Unauthenticated",
                          Err("invalid or expired session", <<>>))
               ELSE IF p \notin DOMAIN files
                    THEN Reply("Stat", sid, 0, p, "NotFound", Err("file not found", p))
                    ELSE [Reply("Stat", sid, 0, p, "OK", NoErr) EXCEPT !.info = files[p].info]
    /\ UNCHANGED <<files, sessions, nextSid, up, allocd, closedIds>>

\* --------------------------------------------------- InodeService.CreateInode
CreateInode(p, type, mode, owner, group) ==
    /\ up
    /\ Tick
    /\ UNCHANGED <<reads, closes, opens, removed, writes, threads, locks>>
    /\ IF p \in DOMAIN files
       THEN /\ last' = Reply("CreateInode", 0, 0, p, "AlreadyExists",
                             Err("file already exists", p))
            /\ UNCHANGED files
       ELSE /\ files' = StorageCreate(files, p, FileInfo(type, mode, owner, group))
            /\ last' = [Reply("CreateInode", 0, 0, p, "OK", NoErr)
                           EXCEPT !.info = FileInfo(type, mode, owner, group)]
    /\ UNCHANGED <<sessions, nextSid, up, allocd, closedIds>>

\* ------------------------------------------------------- MemoryStorage.Delete
Delete(p) ==
    /\ up
    /\ Tick
    /\ UNCHANGED <<reads, closes, opens, removed, writes, threads, locks>>
    /\ IF p \notin DOMAIN files
       THEN /\ last' = Reply("Delete", 0, 0, p, "NotFound", Err("file not found", p))
            /\ UNCHANGED files
       ELSE IF ~CanDelete(files, p)
            THEN /\ last' = Reply("Delete", 0, 0, p, "Busy", Err("file is still open", p))
                 /\ UNCHANGED files
            ELSE /\ files' = Drop(files, p)
                 /\ last' = Reply("Delete", 0, 0, p, "OK", NoErr)
    /\ UNCHANGED <<sessions, nextSid, up, allocd, closedIds>>

\* ------------------------------------------------------------- specification
\* Descriptor lifecycle: two top-level paths, READ and WRITE opens.
LifecycleSessions ==
    { [user |-> "alice", groups |-> <<"staff">>],
      [user |-> "bob",   groups |-> <<>>] }
LifecyclePaths == { <<"a">>, <<"p">> }
LifecycleModes == {"READ", "WRITE"}
LifecycleFds == 4..(3 + MaxFD)
LifecycleStreams == { <<Meta(fd, -1, 1), Chunk(<<1>>)>> : fd \in LifecycleFds }

Next ==
    \/ \E inp \in LifecycleSessions : CreateSession(inp)
    \/ \E sid \in SessionIds : CloseSession(sid)
    \/ \E sid \in SessionIds, p \in LifecyclePaths, m \in LifecycleModes : Open(sid, p, m)
    \/ \E c \in SessionIds, fd \in LifecycleFds : Close(c, fd)
    \/ \E c \in SessionIds, fd \in LifecycleFds : Read(c, fd, -1, -1)
    \/ \E c \in SessionIds, units \in LifecycleStreams : Write(c, units, "EOF")
    \/ \E sid \in SessionIds, p \in LifecyclePaths : Stat(sid, p)
    \/ \E p \in LifecyclePaths : Delete(p)

Spec == Init /\ [][Next]_vars

\* ------------------------------------------- permission specification
\* The permission walk is a function of the storage snapshot and the session:
\* the run starts with one session and a store populated through CreateInode.
PermStorages ==
    [Paths -> {[type |-> "none", mode |-> 0]} \cup InodeInputs]

PermStore(choice) ==
    [p \in {q \in Paths : choice[q].type # "none"} |->
        [content |-> <<>>,
         info |-> FileInfo(choice[p].type, choice[p].mode, "alice", "staff"),
         refCount |-> 0]]

InitPerm ==
    /\ \E choice \in PermStorages : files = PermStore(choice)
    /\ \E inp \in SessionInputs : sessions = Put(EmptyFn, 1, NewSession(inp.user, inp.groups))
    /\ nextSid = 1
    /\ up = TRUE
    /\ last = Reply("init", 0, 0, <<>>, "OK", NoErr)
    /\ allocd = [s \in SessionIds |-> <<>>]
    /\ closedIds = {}
    /\ budget = MaxPermSteps
    /\ reads = EmptyFn
    /\ closes = EmptyFn
    /\ opens = EmptyFn
    /\ removed = EmptyFn
    /\ writes = EmptyFn
    /\ threads = EmptyFn
    /\ locks = NoLocks

NextPerm ==
    \/ \E p \in Paths, m \in OpenModes : Open(1, p, m)
    \/ \E p \in Paths : Stat(1, p)
    \/ \E p \in Paths, i \in InodeInputs : CreateInode(p, i.type, i.mode, "alice", "staff")

SpecPerm == InitPerm /\ [][NextPerm]_vars

\* ------------------------------------------------ streaming specification
\* Two reader sessions and a writer session on one file.  The run starts after
\*   CreateSession x3; writer: Open(/p, WRITE) -> 4 (creates /p),
\*   Open(/p, WRITE) -> 5, Close(4), a committed Write through 5;
\*   each reader: Open(/p, READ) -> 4
\* so the writer holds descriptor 5 and each reader holds descriptor 4.
StreamReaders == {1, 2}
StreamWriter == 3
StreamPath == <<"p">>
StreamContents == { <<>>, <<1>> }
StreamFds == {4, 5}
StreamStreams ==
    { <<>>,
      <<Chunk(<<7>>)>>,
      <<Chunk(<<7>>), Chunk(<<8>>)>>,
      <<Meta(5, -1, 0)>>,
      <<Meta(5, -1, 2), Chunk(<<2>>), Chunk(<<3>>)>>,
      <<Meta(4, -1, 1), Chunk(<<9>>)>> }
StreamEnds == {"EOF", "ERR"}

InitStream ==
    /\ \E content \in StreamContents :
         files = Put(EmptyFn, StreamPath,
                     [content |-> content,
                      info |-> [FileInfo("REGULAR", 420, "alice", "staff")
                                   EXCEPT !.length = Len(content)],
                      refCount |-> 3])
    /\ sessions =
         [s \in StreamReaders \cup {StreamWriter} |->
            IF s = StreamWriter
            THEN [user |-> "alice", groups |-> <<"staff">>,
                  table |-> Release(Allocate(Allocate(NewFDTable, StreamPath, "WRITE"),
                                             StreamPath, "WRITE"), 4)]
            ELSE [user |-> "bob", groups |-> <<>>,
                  table |-> Allocate(NewFDTable, StreamPath, "READ")]]
    /\ nextSid = 3
    /\ up = TRUE
    /\ last = Reply("init", 0, 0, <<>>, "OK", NoErr)
    /\ allocd = [s \in StreamReaders \cup {StreamWriter} |->
                   IF s = StreamWriter THEN <<4, 5>> ELSE <<4>>]
    /\ closedIds = {4}
    /\ budget = MaxStreamSteps
    /\ reads = EmptyFn
    /\ closes = EmptyFn
    /\ opens = EmptyFn
    /\ removed = EmptyFn
    /\ writes = EmptyFn
    /\ threads = EmptyFn
    /\ locks = NoLocks

NextStream ==
    \/ \E c \in StreamReaders, fd \in StreamFds : ReadBegin(c, fd, -1, -1)
    \/ \E c \in StreamReaders : ReadParams(c)
    \/ \E c \in StreamReaders : ReadSend(c)
    \/ \E c \in StreamReaders : ReadCancel(c)
    \/ \E units \in StreamStreams, end \in StreamEnds : Write(StreamWriter, units, end)
    \/ \E fd \in StreamFds : Close(StreamWriter, fd)
    \/ \E sid \in StreamReaders : CloseSession(sid)

SpecStream == InitStream /\ [][NextStream]_vars

\* -------------------------------------------------- chunking specification
\* One session that has written a file of up to MaxChunks chunks and a byte
\* and holds a READ descriptor on it.  The run starts after
\*   CreateSession; Open(/p, WRITE) -> 4 (creates /p); a committed Write
\*   through 4; Open(/p, READ) -> 5
\* and makes Read calls, which change no state.
ChunkLengths ==
    { 0, 1, chunkSize - 1, chunkSize, chunkSize + 1,
      MaxChunks * chunkSize, MaxChunks * chunkSize + 1 }
ChunkContent(n) == [i \in 1..n |-> i % 256]
ChunkOffsets == { -1, 0, 1, chunkSize }
ChunkCounts == { -1, 0, 1, chunkSize, chunkSize + 1 }
ChunkPath == <<"p">>

InitChunk ==
    /\ \E n \in ChunkLengths :
         files = Put(EmptyFn, ChunkPath,
                     [content |-> ChunkContent(n),
                      info |-> [FileInfo("REGULAR", 420, "alice", "staff")
                                   EXCEPT !.length = n],
                      refCount |-> 2])
    /\ sessions = Put(EmptyFn, 1,
                      [user |-> "alice", groups |-> <<"staff">>,
                       table |-> Allocate(Allocate(NewFDTable, ChunkPath, "WRITE"),
                                          ChunkPath, "READ")])
    /\ nextSid = 1
    /\ up = TRUE
    /\ last = Reply("init", 0, 0, <<>>, "OK", NoErr)
    /\ allocd = [s \in SessionIds |-> IF s = 1 THEN <<4, 5>> ELSE <<>>]
    /\ closedIds = {}
    /\ budget = MaxChunkReads
    /\ reads = EmptyFn
    /\ closes = EmptyFn
    /\ opens = EmptyFn
    /\ removed = EmptyFn
    /\ writes = EmptyFn
    /\ threads = EmptyFn
    /\ locks = NoLocks

NextChunk ==
    \E fd \in {4, 5}, reqOffset \in ChunkOffsets, reqCount \in ChunkCounts :
       Read(1, fd, reqOffset, reqCount)

SpecChunk == InitChunk /\ [][NextChunk]_vars

\* ------------------------------------------------- read/write specification
\* One session holding a descriptor of every mode on one file.  The run
\* starts after
\*   CreateInode(/p, REGULAR, 0755, alice, staff); CreateSession(alice, [staff]);
\*   Open(/p, m) for m = WRITE, TRUNC, RDWR, READ, EXEC -> 4, 5, 6, 7, 8;
\*   a committed Write through 4
\* and makes Write and Read calls.
IOPath == <<"p">>
IOModes == <<"WRITE", "TRUNC", "RDWR", "READ", "EXEC">>
IOContents == { <<>>, <<1, 2, 3>> }
IOOffsets == { -1, 1, 4 }
IOBodies == { <<Chunk(<<7>>)>>, <<Chunk(<<7>>), Chunk(<<8>>)>> }
IOStreams ==
    { <<Meta(fd, off, 2)>> \o body : fd \in {4, 5, 6}, off \in IOOffsets, body \in IOBodies }
    \cup { <<Meta(fd, -1, 1), Chunk(<<7>>)>> : fd \in {7, 8} }
    \cup { <<Chunk(<<7>>), Meta(4, -1, 2), Chunk(<<8>>)>>,
           <<Meta(4, -1, 2), Chunk(<<7>>), Meta(4, -1, 2), Chunk(<<8>>)>>,
           <<Meta(4, 1, 2), Chunk(<<7>>), Meta(7, -1, 2), Chunk(<<8>>)>> }
IOReads ==
    { <<fd, r[1], r[2]>> : fd \in {6, 7}, r \in { <<-1, -1>>, <<-1, 1>>, <<1, -1>> } }
    \cup { <<fd, -1, -1>> : fd \in {4, 5, 8} }

RECURSIVE AllocateAll(_, _, _, _)
AllocateAll(tbl, path, modes, i) ==
    IF i > Len(modes) THEN tbl
    ELSE AllocateAll(Allocate(tbl, path, modes[i]), path, modes, i + 1)

InitIO ==
    /\ \E content \in IOContents :
         files = Put(EmptyFn, IOPath,
                     [content |-> content,
                      info |-> [FileInfo("REGULAR", 493, "alice", "staff")
                                   EXCEPT !.length = Len(content)],
                      refCount |-> Len(IOModes)])
    /\ sessions = Put(EmptyFn, 1,
                      [user |-> "alice", groups |-> <<"staff">>,
                       table |-> AllocateAll(NewFDTable, IOPath, IOModes, 1)])
    /\ nextSid = 1
    /\ up = TRUE
    /\ last = Reply("init", 0, 0, <<>>, "OK", NoErr)
    /\ allocd = [s \in SessionIds |-> IF s = 1 THEN <<4, 5, 6, 7, 8>> ELSE <<>>]
    /\ closedIds = {}
    /\ budget = MaxIOSteps
    /\ reads = EmptyFn
    /\ closes = EmptyFn
    /\ opens = EmptyFn
    /\ removed = EmptyFn
    /\ writes = EmptyFn
    /\ threads = EmptyFn
    /\ locks = NoLocks

NextIO ==
    \/ \E units \in IOStreams : Write(1, units, "EOF")
    \/ \E r \in IOReads : Read(1, r[1], r[2], r[3])

SpecIO == InitIO /\ [][NextIO]_vars

\* ------------------------------------------------ concurrent-close specification
\* One session holding two descriptors on one file.  The run starts after
\*   CreateSession(alice, [staff]); Open(/p, WRITE) -> 4; Open(/p, READ) -> 5
\* and makes Close calls, on either descriptor, whose steps interleave.
ClosePath == <<"p">>
CloseCalls == 1..MaxCloseCalls
CloseFds == {4, 5}

InitClose ==
    /\ files = Put(EmptyFn, ClosePath,
                   [content |-> <<>>,
                    info |-> FileInfo("REGULAR", 420, "alice", "staff"),
                    refCount |-> 2])
    /\ sessions = Put(EmptyFn, 1,
                      [user |-> "alice", groups |-> <<"staff">>,
                       table |-> Allocate(Allocate(NewFDTable, ClosePath, "WRITE"),
                                          ClosePath, "READ")])
    /\ nextSid = 1
    /\ up = TRUE
    /\ last = Reply("init", 0, 0, <<>>, "OK", NoErr)
    /\ allocd = [s \in SessionIds |-> IF s = 1 THEN <<4, 5>> ELSE <<>>]
    /\ closedIds = {}
    /\ budget = 5 * MaxCloseCalls
    /\ reads = EmptyFn
    /\ closes = EmptyFn
    /\ opens = EmptyFn
    /\ removed = EmptyFn
    /\ writes = EmptyFn
    /\ threads = EmptyFn
    /\ locks = NoLocks

NextClose ==
    \/ \E k \in CloseCalls, fd \in CloseFds : CloseBegin(k, 1, fd)
    \/ \E k \in CloseCalls : CloseGet(k)
    \/ \E k \in CloseCalls : CloseDecRef(k)
    \/ \E k \in CloseCalls : CloseResolve(k)
    \/ \E k \in CloseCalls : CloseRelease(k)

SpecClose == InitClose /\ [][NextClose]_vars

\* ------------------------------------------------ concurrent-open specification
\* One session and one path, present or absent.  The run starts after
\*   CreateSession(alice, [staff])  (and CreateInode(/p, REGULAR, 0644, alice, staff))
\* and makes Open calls whose steps interleave with each other and with a
\* CloseSession of the session.
OpenCallPath == <<"p">>
OpenCalls == 1..MaxOpenCalls
OpenCallModes == {"READ", "WRITE"}

InitOpen ==
    /\ \/ files = EmptyFn
       \/ files = StorageCreate(EmptyFn, OpenCallPath,
                                FileInfo("REGULAR", 420, "alice", "staff"))
    /\ sessions = Put(EmptyFn, 1, NewSession("alice", <<"staff">>))
    /\ nextSid = 1
    /\ up = TRUE
    /\ last = Reply("init", 0, 0, <<>>, "OK", NoErr)
    /\ allocd = [s \in SessionIds |-> <<>>]
    /\ closedIds = {}
    /\ budget = 7 * MaxOpenCalls + 1
    /\ reads = EmptyFn
    /\ closes = EmptyFn
    /\ opens = EmptyFn
    /\ removed = EmptyFn
    /\ writes = EmptyFn
    /\ threads = EmptyFn
    /\ locks = NoLocks

NextOpen ==
    \/ \E k \in OpenCalls, m \in OpenCallModes : OpenBegin(k, 1, OpenCallPath, m)
    \/ \E k \in OpenCalls : OpenCheck(k)
    \/ \E k \in OpenCalls : OpenSession(k)
    \/ \E k \in OpenCalls : OpenFile(k)
    \/ \E k \in OpenCalls : OpenCreate(k)
    \/ \E k \in OpenCalls : OpenAllocateFd(k)
    \/ \E k \in OpenCalls : OpenIncRef(k)
    \/ CloseSessionHeld(1)

SpecOpen == InitOpen /\ [][NextOpen]_vars

\* ----------------------------------------------- concurrent-write specification
\* One session holding two descriptors on one file.  The run starts after
\*   CreateSession(alice, [staff]); Open(/p, WRITE) -> 4; Open(/p, RDWR) -> 5;
\*   a committed Write of <<1, 2, 3>> through 4
\* and makes Write calls with non-negative offsets whose steps interleave.
WriteCallPath == <<"p">>
WriteCalls == 1..MaxWriteCalls
WriteCallContent == <<1, 2, 3>>
WriteCallStreams ==
    { <<Meta(fd, off, 1), Chunk(<<body>>)>> : fd \in {4, 5}, off \in {0, 2, 4}, body \in {7, 8} }

InitWrite ==
    /\ files = Put(EmptyFn, WriteCallPath,
                   [content |-> WriteCallContent,
                    info |-> [FileInfo("REGULAR", 420, "alice", "staff")
                                 EXCEPT !.length = Len(WriteCallContent)],
                    refCount |-> 2])
    /\ sessions = Put(EmptyFn, 1,
                      [user |-> "alice", groups |-> <<"staff">>,
                       table |-> Allocate(Allocate(NewFDTable, WriteCallPath, "WRITE"),
                                          WriteCallPath, "RDWR")])
    /\ nextSid = 1
    /\ up = TRUE
    /\ last = Reply("init", 0, 0, <<>>, "OK", NoErr)
    /\ allocd = [s \in SessionIds |-> IF s = 1 THEN <<4, 5>> ELSE <<>>]
    /\ closedIds = {}
    /\ budget = 4 * MaxWriteCalls
    /\ reads = EmptyFn
    /\ closes = EmptyFn
    /\ opens = EmptyFn
    /\ removed = EmptyFn
    /\ writes = EmptyFn
    /\ threads = EmptyFn
    /\ locks = NoLocks

NextWrite ==
    \/ \E k \in WriteCalls, units \in WriteCallStreams : WriteRecv(k, 1, units)
    \/ \E k \in WriteCalls : WriteGet(k)
    \/ \E k \in WriteCalls : WriteCompute(k)
    \/ \E k \in WriteCalls : WriteSet(k)

SpecWrite == InitWrite /\ [][NextWrite]_vars

\* --------------------------------------------------- lock-level specification
\* The handlers as the sequences of sync.RWMutex operations they perform:
\* SessionManager.mu (the registry lock), MemoryStorage.mu (the storage lock)
\* and one FDTable.mu per session.  Every method of the three types takes its
\* own lock on entry and releases it on return (defer) and calls nothing in
\* between, except SessionManager.Close, which calls methods of the other
\* two while it holds sm.mu.  A method that only holds its own lock is one
\* step, as in the other specifications; it waits while the lock is not free.
\* What a handler does with the data is left to the other specifications: a
\* handler may return early wherever it holds no lock (its error returns).
RegistryLock == <<"reg", 0>>
StorageLock == <<"st", 0>>
TableLock(s) == <<"tbl", s>>
LockSessions == {1, 2}
LockNames == {RegistryLock, StorageLock} \cup { TableLock(s) : s \in LockSessions }
LockCalls == 1..MaxLockCalls

\* a method that read-locks, resp. locks, l for its duration
RLocked(l) == << [a |-> "rcall", l |-> l] >>
Locked(l) == << [a |-> "call", l |-> l] >>

\* getSessionForFD: sessions.List, sessions.Get, session.FDTable.Get
getSessionForFDLocks(s) ==
    RLocked(RegistryLock) \o RLocked(RegistryLock) \o RLocked(TableLock(s))
\* getAndValidateFD: getSessionForFD, session.FDTable.Get
getAndValidateFDLocks(s) == getSessionForFDLocks(s) \o RLocked(TableLock(s))

\* SessionManager.Create
CreateSessionLocks == Locked(RegistryLock)
\* SessionManager.Close: sm.mu held across CloseAll, List and DecRef
CloseSessionLocks(s) ==
    << [a |-> "lock", l |-> RegistryLock] >>
    \o Locked(TableLock(s)) \o RLocked(TableLock(s)) \o Locked(StorageLock)
    \o << [a |-> "unlock", l |-> RegistryLock] >>
\* Open: sessions.Get; CheckPermission: sessions.Get, storage.Get in the walk,
\* storage.Get; AllocateFd: sessions.Get, storage.Get, Create, Get, Allocate, IncRef
OpenLocks(s) ==
    RLocked(RegistryLock)
    \o RLocked(RegistryLock) \o RLocked(StorageLock) \o RLocked(StorageLock)
    \o RLocked(RegistryLock) \o RLocked(StorageLock) \o Locked(StorageLock)
    \o RLocked(StorageLock) \o Locked(TableLock(s)) \o Locked(StorageLock)
\* Read: getAndValidateFD, storage.Get
ReadLocks(s) == getAndValidateFDLocks(s) \o RLocked(StorageLock)
\* Write: getAndValidateFD, storage.Get, storage.Set
WriteLocks(s) == getAndValidateFDLocks(s) \o RLocked(StorageLock) \o Locked(StorageLock)

\* mutant of CloseLocks: the table lock is held across the whole handler
CloseLocksHoldingTable(s) ==
    << [a |-> "lock", l |-> TableLock(s)] >>
    \o RLocked(RegistryLock) \o RLocked(RegistryLock)
    \o Locked(StorageLock) \o RLocked(RegistryLock) \o RLocked(RegistryLock)
    \o << [a |-> "unlock", l |-> TableLock(s)] >>

\* Close: getAndValidateFD, storage.DecRef, getSessionForFD, FDTable.Release
CloseLocks(s) ==
    getAndValidateFDLocks(s) \o Locked(StorageLock)
    \o getSessionForFDLocks(s) \o Locked(TableLock(s))
\* Stat: sessions.Get, storage.Get
StatLocks == RLocked(RegistryLock) \o RLocked(StorageLock)

LockProgram(op, s) ==
    CASE op = "CreateSession" -> CreateSessionLocks
      [] op = "CloseSession" -> CloseSessionLocks(s)
      [] op = "Open" -> OpenLocks(s)
      [] op = "Read" -> ReadLocks(s)
      [] op = "Write" -> WriteLocks(s)
      [] op = "Close" -> CloseLocks(s)
      [] op = "Stat" -> StatLocks

\* the calls: session 1 opens and uses descriptors, either session is closed
LockInputs ==
    { <<"CreateSession", 1>>, <<"CloseSession", 1>>, <<"CloseSession", 2>>,
      <<"Open", 1>>, <<"Read", 1>>, <<"Write", 1>>, <<"Close", 1>>, <<"Stat", 1>> }

Program(k) == LockProgram(threads[k].op, threads[k].sess)
Returned(k) == k \in DOMAIN threads /\ threads[k].pc > Len(Program(k))
Holds(k, l) == locks[l].w = k \/ k \in locks[l].r
\* what the lock's state allows
CanRLock(l) == locks[l].w = 0
CanLock(l) == locks[l].w = 0 /\ locks[l].r = {}
\* call k is at a Lock or RLock that the lock's state does not allow
Waiting(k, l) ==
    /\ k \in DOMAIN threads
    /\ ~Returned(k)
    /\ Program(k)[threads[k].pc].l = l
    /\ \/ Program(k)[threads[k].pc].a = "rcall" /\ ~CanRLock(l)
       \/ Program(k)[threads[k].pc].a \in {"call", "lock"} /\ ~CanLock(l)

\* a call arrives: handler op on (a descriptor of) session s
CallStart(k, op, s) ==
    /\ up
    /\ k \notin DOMAIN threads
    /\ threads' = Put(threads, k, [op |-> op, sess |-> s, pc |-> 1])
    /\ UNCHANGED <<files, sessions, nextSid, up, last, allocd, closedIds, budget,
                   reads, closes, opens, removed, writes, locks>>

\* a method that holds only its own lock: RLock or Lock, the body, the release
LockedCall(k) ==
    /\ up
    /\ k \in DOMAIN threads
    /\ ~Returned(k)
    /\ LET o == Program(k)[threads[k].pc]
       IN /\ o.a \in {"call", "rcall"}
          /\ IF o.a = "call" THEN CanLock(o.l) ELSE CanRLock(o.l)
    /\ threads' = [threads EXCEPT ![k].pc = @ + 1]
    /\ UNCHANGED <<files, sessions, nextSid, up, last, allocd, closedIds, budget,
                   reads, closes, opens, removed, writes, locks>>

\* sync.RWMutex Lock, held across the following steps
LockAcquire(k) ==
    /\ up
    /\ k \in DOMAIN threads
    /\ ~Returned(k)
    /\ LET o == Program(k)[threads[k].pc]
       IN /\ o.a = "lock"
          /\ CanLock(o.l)
          /\ locks' = [locks EXCEPT ![o.l].w = k]
    /\ threads' = [threads EXCEPT ![k].pc = @ + 1]
    /\ UNCHANGED <<files, sessions, nextSid, up, last, allocd, closedIds, budget,
                   reads, closes, opens, removed, writes>>

\* sync.RWMutex Unlock
LockRelease(k) ==
    /\ up
    /\ k \in DOMAIN threads
    /\ ~Returned(k)
    /\ LET o == Program(k)[threads[k].pc]
       IN /\ o.a = "unlock"
          /\ locks' = [locks EXCEPT ![o.l].w = 0]
    /\ threads' = [threads EXCEPT ![k].pc = @ + 1]
    /\ UNCHANGED <<files, sessions, nextSid, up, last, allocd, closedIds, budget,
                   reads, closes, opens, removed, writes>>

\* an error return of a handler, holding no lock
CallReturnEarly(k) ==
    /\ up
    /\ k \in DOMAIN threads
    /\ ~Returned(k)
    /\ threads[k].pc > 1
    /\ threads[k].op \notin {"CreateSession", "CloseSession"}
    /\ \A l \in LockNames : ~Holds(k, l)
    /\ threads' = [threads EXCEPT ![k].pc = Len(Program(k)) + 1]
    /\ UNCHANGED <<files, sessions, nextSid, up, last, allocd, closedIds, budget,
                   reads, closes, opens, removed, writes, locks>>

InitLock ==
    /\ files = EmptyFn
    /\ sessions = [s \in LockSessions |-> NewSession("alice", <<"staff">>)]
    /\ nextSid = 2
    /\ up = TRUE
    /\ last = Reply("init", 0, 0, <<>>, "OK", NoErr)
    /\ allocd = [s \in SessionIds |-> <<>>]
    /\ closedIds = {}
    /\ budget = 0
    /\ reads = EmptyFn
    /\ closes = EmptyFn
    /\ opens = EmptyFn
    /\ removed = EmptyFn
    /\ writes = EmptyFn
    /\ threads = EmptyFn
    /\ locks = [l \in LockNames |-> [w |-> 0, r |-> {}]]

NextLock ==
    \/ \E k \in LockCalls, inp \in LockInputs : CallStart(k, inp[1], inp[2])
    \/ \E k \in LockCalls : LockedCall(k)
    \/ \E k \in LockCalls : LockAcquire(k)
    \/ \E k \in LockCalls : LockRelease(k)
    \/ \E k \in LockCalls : CallReturnEarly(k)

SpecLock == InitLock /\ [][NextLock]_vars

\* the Go scheduler runs every goroutine that can take a step
SpecLockFair ==
    SpecLock /\ \A k \in LockCalls :
                   WF_vars(LockedCall(k) \/ LockAcquire(k) \/ LockRelease(k))

\* ------------------------------------------------------------ claim helpers
Range(f) == { f[x] : x \in DOMAIN f }

\* live handles, across all live sessions, bound to path p
HandlesOn(sm, p) ==
    { sf \in UNION { {<<s, fd>> : fd \in DOMAIN sm[s].table.handles} : s \in DOMAIN sm } :
        sm[sf[1]].table.handles[sf[2]].path = p }

\* live handles of session s bound to path p
SessionHandlesOn(sm, s, p) == { fd \in DOMAIN sm[s].table.handles : sm[s].table.handles[fd].path = p }

\* concatenation of the content chunks of a Read reply
RECURSIVE Body(_)
Body(units) ==
    IF Len(units) = 0 THEN <<>>
    ELSE (IF Head(units).kind = "chunk" THEN Head(units).data ELSE <<>>) \o Body(Tail(units))

DescriptorOps == {"Read", "Write", "Close"}

\* C1: at every quiescent point the refCount of every stored path equals the
\* number of live handles, over all live sessions, bound to that path.
RefCountEqualsLiveHandles ==
    \A p \in DOMAIN files : files[p].refCount = Cardinality(HandlesOn(sessions, p))

\* C2: CloseSession on a live session removes the session with its whole
\* descriptor table and lowers each path's refCount by the number of handles
\* the session held on that path.
CloseSessionReleasesRefs ==
    [][\A s \in DOMAIN sessions :
         (last'.op = "CloseSession" /\ last'.sid = s /\ budget' # budget)
         => /\ last'.code = "OK"
            /\ s \notin DOMAIN sessions'
            /\ \A p \in DOMAIN files :
                 /\ p \in DOMAIN files'
                 /\ files'[p].refCount =
                      files[p].refCount - Cardinality(SessionHandlesOn(sessions, s, p))]_vars

\* C3: a Read, Write or Close carrying a descriptor id that Open returned to
\* session A acts on no handle of another session's descriptor table.
NoCrossSessionAccess ==
    (last.op \in DescriptorOps /\ last.fd \in Range(allocd[last.sid]))
    => last.acted \subseteq {last.sid}

\* C4: every live handle's path resolves to a record in storage, and a Delete
\* that succeeded removed a path no live handle is bound to.
LiveHandlesResolve ==
    /\ \A s \in DOMAIN sessions : \A fd \in DOMAIN sessions[s].table.handles :
         sessions[s].table.handles[fd].path \in DOMAIN files
    /\ (last.op = "Delete" /\ last.code = "OK") => HandlesOn(sessions, last.path) = {}

\* the ids a table has handed out start at 4 and strictly increase
AllocIdsIncrease ==
    \A s \in SessionIds :
       /\ Len(allocd[s]) > 0 => allocd[s][1] = 4
       /\ \A i, j \in 1..Len(allocd[s]) : i < j => allocd[s][i] < allocd[s][j]
\* an id a table has handed out and no longer holds stays out of that table
ReleasedStaysReleased ==
    \A s \in (DOMAIN sessions) \cap (DOMAIN sessions') :
       \A fd \in Range(allocd[s]) :
          ~TableHas(sessions[s].table, fd) => ~TableHas(sessions'[s].table, fd)
StaleIdAlwaysFails ==
    [][(last'.op \in DescriptorOps /\ budget' # budget /\ last'.fd \in closedIds)
       => last'.code = "InvalidArgument"]_vars

\* C7: round trip.  A whole-file Write stream (negative offset) through a
\* descriptor the caller opened for WRITE leaves exactly the streamed bytes at
\* the descriptor's path, and a whole-file Read (offset -1, count -1) through
\* a descriptor the caller opened for READ returns exactly the path's bytes.
WriteThenReadRoundTrip ==
    [][(budget' # budget /\ last'.sid \in DOMAIN sessions
        /\ TableHas(sessions[last'.sid].table, last'.fd) /\ last'.whole)
       => LET h == sessions[last'.sid].table.handles[last'.fd]
          IN /\ (last'.op = "Write" /\ h.mode = "WRITE" /\ h.path \in DOMAIN files)
                  => /\ last'.code = "OK"
                     /\ h.path \in DOMAIN files'
                     /\ files'[h.path].content = last'.sent
             /\ (last'.op = "Read" /\ h.mode = "READ" /\ h.path \in DOMAIN files)
                  => /\ last'.code = "OK"
                     /\ Body(last'.units) = files[h.path].content]_vars

\* C8: CloseSession on a session id that was created and has been closed
\* fails with the invalid-session error and changes neither storage (no
\* refCount) nor any descriptor table.
ClosedSessionCloseFails ==
    [][(last'.op = "CloseSession" /\ budget' # budget
        /\ last'.sid \in 1..nextSid /\ last'.sid \notin DOMAIN sessions)
       => /\ last'.code = "NotFound"
          /\ last'.err.msg = "invalid or expired session"
          /\ files' = files
          /\ sessions' = sessions]_vars
ClosedSessionCloseFailsWitness ==
    /\ last.op = "CloseSession" /\ last.code = "NotFound"
    /\ last.sid \in 1..nextSid
    /\ Len(allocd[last.sid]) > 0
    /\ \E p \in DOMAIN files : files[p].refCount > 0
    /\ \E s \in DOMAIN sessions : DOMAIN sessions[s].table.handles # {}

\* the caller's permission class on a file, and the three bits of that class
ClassBits(info, user, groups) ==
    IF info.owner = user THEN (info.mode \div 64) % 8
    ELSE IF info.group \in Range(groups) THEN (info.mode \div 8) % 8
    ELSE info.mode % 8
ReadBit(bits) == bits \div 4 = 1
WriteBit(bits) == (bits \div 2) % 2 = 1
ExecBit(bits) == bits % 2 = 1

\* every proper prefix of path p is a directory the caller may traverse
Traversable(st, p, user, groups) ==
    \A i \in 1..(Len(p) - 1) :
       /\ SubSeq(p, 1, i) \in DOMAIN st
       /\ st[SubSeq(p, 1, i)].info.type = "DIRECTORY"
       /\ ExecBit(ClassBits(st[SubSeq(p, 1, i)].info, user, groups))

\* C9: on an existing, reachable file the open is decided by the bits of one
\* class only: the owner bits when the user is the owner (even when they are
\* unset and the group bits are set), the group bits for a non-owner in the
\* file's group, the other bits for everyone else.
OwnerFirstNoFallthrough ==
    [][(last'.op = "Open" /\ budget' # budget /\ last'.sid \in DOMAIN sessions
        /\ last'.path \in DOMAIN files
        /\ Traversable(files, last'.path, sessions[last'.sid].user, sessions[last'.sid].groups))
       => LET bits == ClassBits(files[last'.path].info, sessions[last'.sid].user,
                                sessions[last'.sid].groups)
          IN /\ last'.mode = "READ" => (last'.code = "OK" <=> ReadBit(bits))
             /\ last'.mode = "WRITE" => (last'.code = "OK" <=> WriteBit(bits))
             /\ last'.mode = "EXEC" => (last'.code = "OK" <=> ExecBit(bits))]_vars
OwnerFirstNoFallthroughWitness ==
    /\ last.op = "Open" /\ last.mode = "READ" /\ last.code = "PermissionDenied"
    /\ last.path \in DOMAIN files /\ last.sid \in DOMAIN sessions
    /\ files[last.path].info.owner = sessions[last.sid].user
    /\ files[last.path].info.group \in Range(sessions[last.sid].groups)
    /\ ~BitSet(files[last.path].info.mode, 256)
    /\ BitSet(files[last.path].info.mode, 32)
    /\ last.err.path = last.path

DeepPath == <<"a", "b", "c.txt">>
\* C10: Open of /a/b/c.txt for WRITE while the directory /a denies execute to
\* the caller fails PermissionDenied naming /a, creates no record and
\* allocates no descriptor.
NoExecuteOnFirstDirDenies ==
    [][(last'.op = "Open" /\ budget' # budget /\ last'.sid \in DOMAIN sessions
        /\ last'.path = DeepPath /\ last'.mode = "WRITE"
        /\ <<"a">> \in DOMAIN files
        /\ files[<<"a">>].info.type = "DIRECTORY"
        /\ ~ExecBit(ClassBits(files[<<"a">>].info, sessions[last'.sid].user,
                              sessions[last'.sid].groups)))
       => /\ last'.code = "PermissionDenied"
          /\ last'.err.path = <<"a">>
          /\ files' = files
          /\ sessions' = sessions
          /\ allocd' = allocd]_vars
NoExecuteOnFirstDirDeniesWitness ==
    /\ last.op = "Open" /\ last.path = DeepPath /\ last.mode = "WRITE"
    /\ last.code = "PermissionDenied" /\ last.err.path = <<"a">>
    /\ last.err.msg = "permission denied (no execute) for directory"
    /\ <<"a">> \in DOMAIN files /\ files[<<"a">>].info.type = "DIRECTORY"
    /\ DeepPath \notin DOMAIN files

\* C11: the body a whole-file Read returns while a Write stream replaces the
\* file's content is exactly the content the file had when the Read began or
\* exactly the content it has when the Read ends, never a truncated or mixed
\* body.
ReadersSeeOldOrNewContent ==
    [][\A c \in DOMAIN reads :
         (c \notin DOMAIN reads' /\ last'.op = "Read" /\ last'.sid = c
          /\ last'.code = "OK" /\ reads[c].path \in DOMAIN files)
         => Body(last'.units) \in {reads[c].pre, files[reads[c].path].content}]_vars

WriteClassModes == {"WRITE", "TRUNC"}
\* C12: Open with a write-class mode on an absent path whose directories the
\* caller may traverse creates a regular-file record of length 0 and mode
\* 0644 owned by the session's user and group; a Stat of a stored path
\* returns the record's info (length, owner, group).
OpenCreatesDefaultRecord ==
    [][(budget' # budget /\ last'.sid \in DOMAIN sessions)
       => LET p == last'.path
              user == sessions[last'.sid].user
              groups == sessions[last'.sid].groups
          IN /\ (last'.op = "Open" /\ last'.mode \in WriteClassModes
                 /\ p \notin DOMAIN files /\ Traversable(files, p, user, groups))
                => /\ last'.code = "OK"
                   /\ p \in DOMAIN files'
                   /\ files'[p].content = <<>>
                   /\ files'[p].info.type = "REGULAR"
                   /\ files'[p].info.mode = 420
                   /\ files'[p].info.length = 0
                   /\ files'[p].info.owner = user
                   /\ files'[p].info.group \in Range(groups)
             /\ (last'.op = "Stat" /\ p \in DOMAIN files)
                => /\ last'.code = "OK"
                   /\ last'.info = files[p].info]_vars

\* C13: Open with mode READ on a path absent from storage fails with NotFound
\* or PermissionDenied, returns no descriptor, creates no record and changes
\* no refCount and no descriptor table.
ReadOpenOfAbsentPathFails ==
    [][(budget' # budget /\ last'.op = "Open" /\ last'.mode = "READ"
        /\ last'.sid \in DOMAIN sessions /\ last'.path \notin DOMAIN files)
       => /\ last'.code \in {"NotFound", "PermissionDenied"}
          /\ last'.fd = 0
          /\ files' = files
          /\ sessions' = sessions
          /\ allocd' = allocd]_vars
ReadOpenOfAbsentPathFailsWitness ==
    /\ last.op = "Open" /\ last.mode = "READ" /\ last.code = "PermissionDenied"
    /\ last.sid \in DOMAIN sessions
    /\ last.path \notin DOMAIN files
    /\ Traversable(files, last.path, sessions[last.sid].user, sessions[last.sid].groups)
    /\ Len(last.path) > 1
    /\ last.err = Err("no such file or directory", last.path)
    /\ sessions[last.sid].table = NewFDTable

\* the example client's path /data/output.txt, with /a standing for /data
ExamplePath == <<"a", "b">>
\* C20: on a store with no entry for the parent directory, Open of a file in
\* it with mode WRITE by a live session (with a group) succeeds and returns a
\* descriptor, opened for writing, that the session's table holds.
ExampleClientOpenSucceeds ==
    [][(budget' # budget /\ last'.op = "Open" /\ last'.mode = "WRITE"
        /\ last'.sid \in DOMAIN sessions /\ Len(sessions[last'.sid].groups) > 0
        /\ last'.path = ExamplePath
        /\ SubSeq(ExamplePath, 1, 1) \notin DOMAIN files
        /\ ExamplePath \notin DOMAIN files)
       => /\ last'.code = "OK"
          /\ TableHas(sessions'[last'.sid].table, last'.fd)
          /\ sessions'[last'.sid].table.handles[last'.fd].mode = "WRITE"
          /\ ExamplePath \in DOMAIN files']_vars

\* C14: Open, Stat and CloseSession given a session id that is not live
\* (never created, or closed) fail with the invalid-session error and leave
\* storage, every refCount and every descriptor table unchanged.
InvalidSessionRejected ==
    [][(budget' # budget /\ last'.op \in {"Open", "Stat", "CloseSession"}
        /\ last'.sid \notin DOMAIN sessions)
       => /\ last'.code \in {"Unauthenticated", "NotFound"}
          /\ last'.err.msg = "invalid or expired session"
          /\ files' = files
          /\ sessions' = sessions
          /\ allocd' = allocd]_vars
InvalidSessionRejectedWitness ==
    /\ last.op = "Stat" /\ last.code = "Unauthenticated"
    /\ last.sid \in 1..nextSid /\ last.sid \notin DOMAIN sessions
    /\ last.path \in DOMAIN files
    /\ \E s \in DOMAIN sessions : DOMAIN sessions[s].table.handles # {}

\* C15: Close on a descriptor id that no live session holds (never allocated,
\* or already closed) fails with the invalid-descriptor error and changes no
\* refCount and no descriptor table.
CloseOfUnheldIdFails ==
    [][(budget' # budget /\ last'.op = "Close" /\ Holders(sessions, last'.fd) = {})
       => /\ last'.code = "InvalidArgument"
          /\ last'.err.msg = "file descriptor not found in any session"
          /\ files' = files
          /\ sessions' = sessions]_vars
CloseOfUnheldIdFailsWitness ==
    /\ last.op = "Close" /\ last.code = "InvalidArgument"
    /\ last.fd \in closedIds
    /\ last.fd \in Range(allocd[last.sid])
    /\ \E p \in DOMAIN files : files[p].refCount > 0
    /\ \E s \in DOMAIN sessions : DOMAIN sessions[s].table.handles # {}

\* C17: a Write stream that reaches end-of-stream without a metadata unit
\* fails InvalidArgument and leaves storage unchanged, whatever chunks it
\* carried.
NoMetadataStreamFails ==
    [][(budget' # budget /\ last'.op = "Write" /\ last'.end = "EOF"
        /\ \A i \in 1..Len(last'.units) : last'.units[i].kind = "chunk")
       => /\ last'.code = "InvalidArgument"
          /\ last'.err.msg = "no metadata received"
          /\ files' = files]_vars
NoMetadataStreamFailsWitness ==
    /\ last.op = "Write" /\ last.end = "EOF"
    /\ Len(last.units) >= 2
    /\ \A i \in 1..Len(last.units) : last.units[i].kind = "chunk"
    /\ last.code = "InvalidArgument"
    /\ last.err.msg = "no metadata received"

\* C18: a Write stream interrupted before end-of-stream commits nothing: the
\* call fails and every file's content and info are what they were before,
\* however many chunks had been received.
InterruptedWriteCommitsNothing ==
    [][(budget' # budget /\ last'.op = "Write" /\ last'.end = "ERR")
       => /\ last'.code # "OK"
          /\ files' = files]_vars
InterruptedWriteCommitsNothingWitness ==
    /\ last.op = "Write" /\ last.end = "ERR" /\ last.code = "Internal"
    /\ last.err.msg = "failed to receive chunk"
    /\ Len(last.units) >= 3 /\ last.units[1].kind = "metadata"
    /\ Len(last.sent) >= 2
    /\ \A x \in last.acted :
         /\ x \in DOMAIN sessions /\ TableHas(sessions[x].table, last.fd)
         /\ sessions[x].table.handles[last.fd].mode = "WRITE"
         /\ files[sessions[x].table.handles[last.fd].path].content # last.sent
    /\ last.acted # {}

\* C19: a Read or Write that fails or is cancelled part-way changes no
\* descriptor table and no refCount; a handle leaves a table only in a Close
\* or CloseSession step.
FailedStreamKeepsDescriptor ==
    [][(budget' # budget)
       => /\ (last'.op \in {"Read", "Write"} /\ last'.code \notin {"OK", "pending"})
               => /\ sessions' = sessions
                  /\ \A p \in DOMAIN files :
                       p \in DOMAIN files' /\ files'[p].refCount = files[p].refCount
          /\ (\E s \in DOMAIN sessions : \E fd \in DOMAIN sessions[s].table.handles :
                 s \notin DOMAIN sessions' \/ ~TableHas(sessions'[s].table, fd))
               => last'.op \in {"Close", "CloseSession"}]_vars
FailedStreamKeepsDescriptorWitness ==
    /\ last.op = "Read" /\ last.code = "Internal"
    /\ last.err.msg = "failed to send chunk"
    /\ last.acted # {}
    /\ \A x \in last.acted :
         /\ x \in DOMAIN sessions /\ TableHas(sessions[x].table, last.fd)
         /\ files[sessions[x].table.handles[last.fd].path].refCount = 3

\* number of bytes in the range a Read request selects from a file of length
\* L: from o (the descriptor's offset when reqOffset is negative) to the end
\* of the file when reqCount is negative, else up to reqCount bytes
RequestedBytes(L, hOffset, reqOffset, reqCount) ==
    LET o == IF reqOffset < 0 THEN hOffset ELSE reqOffset
        upper == IF reqCount < 0 \/ o + reqCount > L THEN L ELSE o + reqCount
    IN IF upper > o THEN upper - o ELSE 0
CeilDiv(n, d) == (n + d - 1) \div d
\* C16: a Read on a valid readable descriptor emits one metadata unit, first;
\* every later unit is a chunk of 1 to 32768 bytes; for n requested bytes
\* there are exactly ceil(n / 32768) chunks, all but the last of exactly
\* 32768 bytes; and the stream then ends normally.
ReadFraming ==
    [][(budget' # budget /\ last'.op = "Read" /\ last'.code # "pending"
        /\ \E x \in last'.acted :
              /\ sessions[x].table.handles[last'.fd].mode \in {"READ", "RDWR"}
              /\ sessions[x].table.handles[last'.fd].path \in DOMAIN files)
       => LET x == CHOOSE y \in last'.acted : TRUE
              h == sessions[x].table.handles[last'.fd]
              units == last'.units
              n == RequestedBytes(Len(files[h.path].content), h.offset,
                                  last'.req[1], last'.req[2])
          IN /\ last'.code = "OK"
             /\ Len(units) >= 1
             /\ units[1].kind = "metadata"
             /\ \A i \in 2..Len(units) :
                  /\ units[i].kind = "chunk"
                  /\ Len(units[i].data) \in 1..chunkSize
             /\ Len(units) - 1 = CeilDiv(n, chunkSize)
             /\ \A i \in 2..(Len(units) - 1) : Len(units[i].data) = chunkSize]_vars

\* C21: Delete of a path whose refCount is greater than 0 fails Busy and
\* leaves storage unchanged; Delete of an absent path fails NotFound; Delete
\* succeeds, removing the record and nothing else, only when the record exists
\* with refCount 0.
DeleteOnlyWhenUnreferenced ==
    [][(budget' # budget /\ last'.op = "Delete")
       => LET p == last'.path
          IN /\ p \notin DOMAIN files
                  => last'.code = "NotFound" /\ files' = files
             /\ (p \in DOMAIN files /\ files[p].refCount > 0)
                  => last'.code = "Busy" /\ files' = files
             /\ last'.code = "OK"
                  => /\ p \in DOMAIN files
                     /\ files[p].refCount = 0
                     /\ files' = Drop(files, p)]_vars
DeleteOnlyWhenUnreferencedWitness ==
    /\ last.op = "Delete" /\ last.code = "Busy"
    /\ last.path \in DOMAIN files
    /\ files[last.path].refCount > 0
    /\ Len(files[last.path].content) > 0
    /\ HandlesOn(sessions, last.path) # {}

\* C22: when the final component is absent and every directory on the way
\* may be traversed, the open is granted and creates the file for WRITE and
\* for TRUNC alike, and is denied, creating nothing, for READ and EXEC
\* (sessions with a group, so that the created record has one).
AbsentFinalGrantedForWriteClass ==
    [][(budget' # budget /\ last'.op = "Open" /\ last'.sid \in DOMAIN sessions
        /\ Len(sessions[last'.sid].groups) > 0
        /\ last'.path \notin DOMAIN files
        /\ Traversable(files, last'.path, sessions[last'.sid].user,
                       sessions[last'.sid].groups))
       => /\ last'.mode \in WriteClassModes
               => /\ last'.code = "OK"
                  /\ last'.path \in DOMAIN files'
                  /\ TableHas(sessions'[last'.sid].table, last'.fd)
          /\ last'.mode \in {"READ", "EXEC"}
               => /\ last'.code \in {"PermissionDenied", "NotFound"}
                  /\ files' = files
                  /\ sessions' = sessions]_vars

\* the class bits a mode asks for are all set
RequiredBitsSet(mode, bits) ==
    CASE mode = "READ" -> ReadBit(bits)
      [] mode \in {"WRITE", "TRUNC"} -> WriteBit(bits)
      [] mode = "RDWR" -> ReadBit(bits) /\ WriteBit(bits)
      [] mode = "EXEC" -> ExecBit(bits)
\* C23: on an existing, reachable final component an open for READ, WRITE,
\* TRUNC, RDWR or EXEC is granted if and only if the caller's class has every
\* bit the mode implies: read for READ, write for WRITE and TRUNC, read and
\* write for RDWR, execute for EXEC.
ModeRequiresExactlyItsBits ==
    [][(budget' # budget /\ last'.op = "Open" /\ last'.sid \in DOMAIN sessions
        /\ last'.mode \in {"READ", "WRITE", "TRUNC", "RDWR", "EXEC"}
        /\ last'.path \in DOMAIN files
        /\ Traversable(files, last'.path, sessions[last'.sid].user, sessions[last'.sid].groups))
       => LET bits == ClassBits(files[last'.path].info, sessions[last'.sid].user,
                                sessions[last'.sid].groups)
          IN /\ last'.code = "OK" <=> RequiredBitsSet(last'.mode, bits)
             /\ last'.code # "OK"
                  => last'.code = "PermissionDenied" /\ last'.err.path = last'.path]_vars
ModeRequiresExactlyItsBitsWitness ==
    /\ last.op = "Open" /\ last.mode = "RDWR" /\ last.code = "PermissionDenied"
    /\ last.path \in DOMAIN files /\ last.sid \in DOMAIN sessions
    /\ Len(last.path) > 1
    /\ Traversable(files, last.path, sessions[last.sid].user, sessions[last.sid].groups)
    /\ LET bits == ClassBits(files[last.path].info, sessions[last.sid].user,
                             sessions[last.sid].groups)
       IN ReadBit(bits) /\ ~WriteBit(bits)
    /\ files[last.path].info.owner # sessions[last.sid].user
    /\ sessions[last.sid].table = NewFDTable

\* directory prefix i of path p stops the walk: it is absent, is not a
\* directory, or denies execute to the caller
PrefixFails(st, p, i, user, groups) ==
    \/ SubSeq(p, 1, i) \notin DOMAIN st
    \/ st[SubSeq(p, 1, i)].info.type # "DIRECTORY"
    \/ ~ExecBit(ClassBits(st[SubSeq(p, 1, i)].info, user, groups))
PrefixError(st, p, i) ==
    IF SubSeq(p, 1, i) \notin DOMAIN st THEN "no such file or directory"
    ELSE IF st[SubSeq(p, 1, i)].info.type # "DIRECTORY" THEN "not a directory"
    ELSE "permission denied (no execute) for directory"
\* C24: for every mode, when some non-final component is absent, is not a
\* directory or denies execute to the caller, Open fails PermissionDenied with
\* the error of the first such component from the root, naming its prefix,
\* and allocates no descriptor and creates no record.
WalkStopsAtFirstBadDirectory ==
    [][(budget' # budget /\ last'.op = "Open" /\ last'.sid \in DOMAIN sessions)
       => LET p == last'.path
              user == sessions[last'.sid].user
              groups == sessions[last'.sid].groups
          IN \A i \in 1..(Len(p) - 1) :
               (/\ PrefixFails(files, p, i, user, groups)
                /\ \A j \in 1..(i - 1) : ~PrefixFails(files, p, j, user, groups))
               => /\ last'.code = "PermissionDenied"
                  /\ last'.err = Err(PrefixError(files, p, i), SubSeq(p, 1, i))
                  /\ last'.fd = 0
                  /\ files' = files
                  /\ sessions' = sessions
                  /\ allocd' = allocd]_vars
WalkStopsAtFirstBadDirectoryWitness ==
    /\ last.op = "Open" /\ last.mode \in {"UNSPECIFIED", "RCLOSE"}
    /\ last.code = "PermissionDenied"
    /\ last.path = DeepPath
    /\ last.err = Err("not a directory", <<"a", "b">>)
    /\ <<"a">> \in DOMAIN files /\ DeepPath \in DOMAIN files
    /\ last.sid \in DOMAIN sessions
    /\ sessions[last.sid].table = NewFDTable

\* a stream of one metadata unit followed by content chunks only
MetadataThenChunks(units) ==
    /\ Len(units) > 0
    /\ units[1].kind = "metadata"
    /\ \A i \in 2..Len(units) : units[i].kind = "chunk"

\* E with B written at offset off: E zero-padded to off, its first off bytes,
\* B, then E's bytes from position off + Len(B) on
Spliced(E, off, B) ==
    LET N == IF Len(E) > off + Len(B) THEN Len(E) ELSE off + Len(B)
    IN [i \in 1..N |->
          IF i <= off THEN (IF i <= Len(E) THEN E[i] ELSE 0)
          ELSE IF i <= off + Len(B) THEN B[i - off]
          ELSE E[i]]

MetadataMustComeFirst ==
    [][(budget' # budget /\ last'.op = "Write" /\ Len(last'.units) > 0)
       => /\ ~MetadataThenChunks(last'.units)
               => (last'.code # "OK" /\ files' = files)
          /\ last'.code = "OK" => last'.n = Len(SentBody(last'.units))]_vars

\* the bytes [o', min(o' + c, L)) of content when c >= 0, [o', L) when c < 0,
\* with o' the requested offset, or the handle's when that is negative
BytesInRange(content, hOffset, reqOffset, reqCount) ==
    LET L == Len(content)
        from == IF reqOffset >= 0 THEN reqOffset ELSE hOffset
        to == IF reqCount >= 0 /\ from + reqCount < L THEN from + reqCount ELSE L
    IN SubSeq(content, from + 1, to)

\* C27: Read on a readable descriptor of a file of length L, with offset o and
\* count c, ends normally and emits chunks whose concatenation is the bytes
\* [o', min(o' + c, L)) for c >= 0 and [o', L) for c < 0, o' being o, or the
\* descriptor's offset when o < 0: nothing for count 0, nothing for o' > L.
ReadEmitsRequestedRange ==
    [][(budget' # budget /\ last'.op = "Read" /\ last'.code # "pending"
        /\ \E x \in last'.acted :
              /\ sessions[x].table.handles[last'.fd].mode \in {"READ", "RDWR"}
              /\ sessions[x].table.handles[last'.fd].path \in DOMAIN files)
       => LET x == CHOOSE y \in last'.acted : TRUE
              h == sessions[x].table.handles[last'.fd]
          IN /\ last'.code = "OK"
             /\ Body(last'.units) =
                   BytesInRange(files[h.path].content, h.offset,
                                last'.req[1], last'.req[2])]_vars

\* C28: Read on a descriptor whose mode is not READ or RDWR fails before any
\* unit is emitted and is not refused for its mode on a READ or RDWR
\* descriptor; a Write stream naming a descriptor whose mode is not WRITE,
\* RDWR or TRUNC fails and leaves the files as they were, and a
\* metadata-then-chunks stream on a WRITE, RDWR or TRUNC descriptor commits.
OnlyReadableReadOnlyWritableWritten ==
    [][(budget' # budget /\ last'.sid \in DOMAIN sessions)
       => LET hs == sessions[last'.sid].table.handles
          IN /\ (last'.op = "Read" /\ last'.fd \in DOMAIN hs)
                  => IF hs[last'.fd].mode \in {"READ", "RDWR"}
                     THEN last'.code # "PermissionDenied"
                     ELSE /\ last'.code \notin {"OK", "panic"}
                          /\ last'.units = <<>>
                          /\ files' = files
             /\ last'.op = "Write"
                  => /\ (\E i \in 1..Len(last'.units) :
                            /\ last'.units[i].kind = "metadata"
                            /\ last'.units[i].fd \in DOMAIN hs
                            /\ hs[last'.units[i].fd].mode \notin {"WRITE", "RDWR", "TRUNC"})
                        => (last'.code # "OK" /\ files' = files)
                     /\ (/\ MetadataThenChunks(last'.units)
                         /\ last'.units[1].fd \in DOMAIN hs
                         /\ hs[last'.units[1].fd].mode \in {"WRITE", "RDWR", "TRUNC"})
                        => last'.code = "OK"]_vars

\* a Write stream on the READ descriptor was refused for its mode
OnlyReadableReadOnlyWritableWrittenWitness ==
    /\ last.op = "Write"
    /\ last.fd = 7
    /\ sessions[last.sid].table.handles[7].mode = "READ"
    /\ last.code = "PermissionDenied"
    /\ Len(last.sent) > 0

\* C29: a Read leaves every handle, and so the offset of the descriptor it
\* read, as it was, also when it reads from the current position; and a
\* from-current-position Read that directly follows an equal one on the same
\* descriptor returns the same bytes.
ReadKeepsStoredOffset ==
    [][(budget' # budget /\ last'.op = "Read")
       => /\ sessions' = sessions
          /\ (/\ last.op = "Read" /\ last.code = "OK" /\ last'.code = "OK"
              /\ last'.fd = last.fd /\ last'.req = last.req /\ last.req[1] < 0)
             => Body(last'.units) = Body(last.units)]_vars

\* after two calls the last of which read from the current position and got
\* bytes, the descriptor's offset is still the 0 it was opened with
ReadKeepsStoredOffsetWitness ==
    /\ budget <= MaxIOSteps - 2
    /\ last.op = "Read" /\ last.code = "OK"
    /\ last.req[1] < 0
    /\ Len(Body(last.units)) > 0
    /\ files[IOPath].content = <<1, 2, 3>>
    /\ sessions[last.sid].table.handles[last.fd].offset = 0

\* the Close calls on descriptor fd that have returned with code
ClosesReturned(fd, code) ==
    { k \in DOMAIN closes : closes[k].fd = fd /\ closes[k].pc = "done" /\ closes[k].code = code }

\* C30: once the Close calls made on the session's descriptors have all
\* returned, however their steps interleaved, exactly one call per closed
\* descriptor has succeeded and the path's refCount has gone down by one for
\* each such descriptor: a Close that returned an error has changed nothing,
\* and a descriptor no Close succeeded on is still open.
ConcurrentCloseDecrementsOnce ==
    (/\ DOMAIN closes = CloseCalls
     /\ \A k \in CloseCalls : closes[k].pc = "done")
    => /\ \A fd \in CloseFds :
            IF \E k \in CloseCalls : closes[k].fd = fd
            THEN /\ Cardinality(ClosesReturned(fd, "OK")) = 1
                 /\ ~TableHas(sessions[1].table, fd)
            ELSE TableHas(sessions[1].table, fd)
       /\ files[ClosePath].refCount =
             2 - Cardinality({ fd \in CloseFds : \E k \in CloseCalls : closes[k].fd = fd })

\* C31: once the Open calls on a session and the CloseSession of that session
\* have all returned, however their steps interleaved, the removed session's
\* descriptor table holds no handle and no path keeps a reference: every
\* increment made by an Open has been matched by a decrement.
HandleLifetimeWithinSession ==
    (/\ 1 \in DOMAIN removed
     /\ DOMAIN opens # {}
     /\ \A k \in DOMAIN opens : opens[k].pc = "done")
    => /\ DOMAIN removed[1].table.handles = {}
       /\ \A p \in DOMAIN files : files[p].refCount = 0

\* the content after the splices of the calls order[1], order[2], ... on E
RECURSIVE SplicedInOrder(_, _, _)
SplicedInOrder(E, order, i) ==
    IF i > Len(order) THEN E
    ELSE SplicedInOrder(Spliced(E, writes[order[i]].units[1].offset,
                                SentBody(writes[order[i]].units)),
                        order, i + 1)

\* C32: once the Write calls, all with non-negative offsets on WRITE or RDWR
\* descriptors of the same path, have all committed, however their steps
\* interleaved, the content is what the splices give when applied one after
\* the other in some order.
WriteCommitsLinearizable ==
    (/\ DOMAIN writes = WriteCalls
     /\ \A k \in WriteCalls : writes[k].pc = "done" /\ writes[k].code = "OK")
    => \E order \in [1..MaxWriteCalls -> WriteCalls] :
          /\ \A i, j \in 1..MaxWriteCalls : order[i] = order[j] => i = j
          /\ files[WriteCallPath].content = SplicedInOrder(WriteCallContent, order, 1)

\* C33: an Open that fails at session validation (Unauthenticated) or at the
\* permission check (PermissionDenied) changes nothing: the stored paths,
\* every record with its refCount, and every descriptor table with its
\* next-id counter are as before.
FailedOpenHasNoEffect ==
    [][(budget' # budget /\ last'.op = "Open"
        /\ last'.code \in {"Unauthenticated", "PermissionDenied"})
       => /\ files' = files
          /\ sessions' = sessions
          /\ allocd' = allocd]_vars

\* a live session was denied a path that is open, by a session holding descriptors
FailedOpenHasNoEffectWitness ==
    /\ last.op = "Open"
    /\ last.code = "PermissionDenied"
    /\ last.sid \in DOMAIN sessions
    /\ last.path \in DOMAIN files
    /\ files[last.path].refCount > 0
    /\ \E s \in DOMAIN sessions : DOMAIN sessions[s].table.handles # {}

\* C34: a Read, Write or Close on a descriptor of one session never waits for
\* the registry lock while a CloseSession of another session holds it: the
\* descriptor operation runs on without the registry lock.
DescriptorOpsNotBlockedByCloseSession ==
    \A k \in DOMAIN threads, c \in DOMAIN threads :
       ~(/\ threads[k].op \in DescriptorOps
         /\ threads[c].op = "CloseSession"
         /\ threads[c].sess # threads[k].sess
         /\ locks[RegistryLock].w = c
         /\ Waiting(k, RegistryLock))

\* C40: under fair scheduling, whatever CreateSession, CloseSession, Open,
\* Read, Write, Close and Stat calls run concurrently, from some point on
\* every call that has arrived has returned: no set of calls waits for each
\* other's locks for ever.
EveryCallReturns ==
    <>[](\A k \in DOMAIN threads : Returned(k))

\* a CloseSession holds the registry lock while another call waits for it
EveryCallReturnsWitness ==
    \E k \in DOMAIN threads, c \in DOMAIN threads :
       /\ threads[c].op = "CloseSession"
       /\ locks[RegistryLock].w = c
       /\ threads[k].op \in {"Open", "Close"}
       /\ Waiting(k, RegistryLock)
\* C35: in every reachable state the info.length of each stored record is the
\* number of bytes of its content: 0 after Create, len(content) after every
\* committed Write.
LengthIsContentLength ==
    \A p \in DOMAIN files : files[p].info.length = Len(files[p].content)

\* a committed Write has left the record it wrote with one byte, beside a
\* record that is still as Create made it
LengthIsContentLengthWitness ==
    /\ last.op = "Write" /\ last.code = "OK"
    /\ \E p, q \in DOMAIN files :
         /\ files[p].content = <<1>> /\ files[p].info.length = 1
         /\ files[q].content = <<>> /\ files[q].info.length = 0

\* C36: the total size announced in the leading metadata unit of a
\* whole-file Read (negative offset and count) is the number of content bytes
\* streamed after it, also when a Write to the same path commits while the
\* Read is in progress.
AnnouncedSizeIsStreamedSize ==
    [][\A c \in DOMAIN reads :
         (c \notin DOMAIN reads' /\ last'.op = "Read" /\ last'.sid = c
          /\ last'.code = "OK" /\ last'.whole)
         => /\ last'.units[1].kind = "metadata"
            /\ last'.units[1].totalSize = Len(Body(last'.units))]_vars

\* C37: Open with WRITE on an absent path by a live session, also one created
\* with an empty group list, does not fault: it returns a typed error, or it
\* creates the record and returns a descriptor on it, and the service is
\* still serving afterwards.
OpenWriteOnAbsentPathNeverFaults ==
    [][(budget' # budget /\ last'.op = "Open" /\ last'.mode = "WRITE"
        /\ last'.sid \in DOMAIN sessions /\ last'.path \notin DOMAIN files)
       => /\ up'
          /\ last'.code # "panic"
          /\ last'.code = "OK"
                => /\ last'.path \in DOMAIN files'
                   /\ last'.fd \in DOMAIN sessions'[last'.sid].table.handles]_vars

\* C38: every successful Open on an existing file passed a permission-bit
\* check on the final component: whatever the mode (also remove-on-close and
\* an unspecified mode), Open returns no descriptor on a file whose mode bits
\* grant the caller's class neither read nor write nor execute.
OpenNeedsSomePermissionBit ==
    [][(budget' # budget /\ last'.op = "Open" /\ last'.code = "OK"
        /\ last'.sid \in DOMAIN sessions /\ last'.path \in DOMAIN files)
       => LET info == files[last'.path].info
              user == sessions[last'.sid].user
              groups == sessions[last'.sid].groups
          IN \/ hasReadPermission(info, user, groups)
             \/ hasWritePermission(info, user, groups)
             \/ hasExecutePermission(info, user, groups)]_vars

\* C39: a committed Write changes only the content and the length of the
\* record bound to its descriptor (in the table the descriptor was resolved
\* in): that record's refCount, type, mode, owner and group, every other
\* record and every descriptor table are as before.
WriteChangesOnlyContent ==
    [][(budget' # budget /\ last'.op = "Write" /\ last'.code = "OK")
       => \E x \in last'.acted :
            /\ x \in DOMAIN sessions
            /\ last'.fd \in DOMAIN sessions[x].table.handles
            /\ LET p == sessions[x].table.handles[last'.fd].path
               IN /\ p \in DOMAIN files
                  /\ DOMAIN files' = DOMAIN files
                  /\ \A q \in DOMAIN files \ {p} : files'[q] = files[q]
                  /\ files'[p].refCount = files[p].refCount
                  /\ files'[p].info =
                        [files[p].info EXCEPT !.length = Len(files'[p].content)]
            /\ sessions' = sessions
            /\ allocd' = allocd]_vars

\* a Write has committed a byte to a record with a reference while a second
\* record and a second session's descriptor table exist
WriteChangesOnlyContentWitness ==
    /\ last.op = "Write" /\ last.code = "OK"
    /\ \E p, q \in DOMAIN files :
         /\ p # q
         /\ files[p].content = <<1>> /\ files[p].refCount >= 1
         /\ files[q].content = <<>>
    /\ \E x, y \in DOMAIN sessions :
         /\ x # y
         /\ sessions[x].table.handles # EmptyFn
         /\ sessions[y].table.handles # EmptyFn

====
